---- MODULE Spec2Model ----
(***************************************************************************)
(* Model of the ESP32 CSI capture module (modwifi_csi.c): the lock-free    *)
(* frame ring buffer (csi_buffer_t) and the capture controller             *)
(* (wifi_csi_init / deinit / enable / disable / config / rx_cb /           *)
(* read_frame) working against the ESP-IDF CSI driver calls.               *)
(*                                                                         *)
(* Eight specifications share the variables:                               *)
(*   Spec      the controller, one action per handler (a handler runs to   *)
(*             its return; the driver delivers frames between handlers);   *)
(*   SpecRing  csi_buffer_write and csi_buffer_read taken statement by     *)
(*             statement, one producer against one consumer;               *)
(*   SpecSwap  the controller taken statement by statement, with the       *)
(*             driver callback firing between any two statements;          *)
(*   SpecLen   wifi_csi_rx_cb once for every payload length reported;      *)
(*   SpecBind  wifi.csi.config as the Python binding takes its arguments; *)
(*   SpecBuf   the ring buffer functions called in any order;              *)
(*   SpecStart wifi_csi_enable with its last two statements taken apart;   *)
(*   SpecLive  producer and consumer with a consumer that keeps reading.   *)
(***************************************************************************)
EXTENDS Integers, Sequences, FiniteSets, TLC

\* ------------------------------------------------------------------------
\* Bounds of the model
\* ------------------------------------------------------------------------
MaxSize == 3
MaxSeq == 3
RingMaxSeq == 4
MaxInfoLen == 131
MaxShiftInput == 40

\* ------------------------------------------------------------------------
\* Program constants
\* ------------------------------------------------------------------------
CSI_MAX_DATA_LEN == 128
CSI_DEFAULT_BUFFER_SIZE == 128

\* esp_err_t values: success, the allocation failure the controller returns,
\* and two failure codes of the driver
ESP_OK == "ESP_OK"
ESP_ERR_NO_MEM == "ESP_ERR_NO_MEM"
ESP_FAIL == "ESP_FAIL"
ESP_ERR_WIFI_NOT_INIT == "ESP_ERR_WIFI_NOT_INIT"
HALF_WORD == 65536
SIZEOF_INT16 == 2
SHIFT_MASK == 15
MAX_BUFFER_SIZE == 1024

\* Result codes a driver call can return
DriverResults == {ESP_OK, ESP_FAIL, ESP_ERR_WIFI_NOT_INIT}

\* Buffer capacities a caller requests (wifi_csi_config_obj accepts 1..1024)
Sizes == 1..MaxSize

\* Payload lengths the driver reports in wifi_csi_info_t.len
InfoLens == {64}

\* A uint32_t counter, kept as its two 16-bit halves (value = hi * 2^16 + lo)
\* so that the wrap at 2^32 is the code's
u32(n) == [hi |-> (n \div HALF_WORD) % HALF_WORD, lo |-> n % HALF_WORD]

u32_inc(x) ==
    IF x.lo + 1 < HALF_WORD THEN [x EXCEPT !.lo = x.lo + 1]
    ELSE [hi |-> (x.hi + 1) % HALF_WORD, lo |-> 0]

\* Contents of a slot that malloc returned and nothing has written yet
Garbage == [seq |-> 0, len |-> 0]

VARIABLES
    buffer,     \* g_csi_state.buffer   (csi_buffer_t)
    config,     \* g_csi_state.config   (csi_config_t)
    enabled,    \* g_csi_state.enabled
    drv,        \* the CSI driver: capture switch, callback, applied config
    nextSeq,    \* number of the next frame the driver will deliver
    attempted,  \* frames handed to csi_buffer_write since the last init
    got,        \* frames returned by csi_buffer_read since the last init
    last,       \* the handler that ran last: arguments, result, call trace
    ring,       \* SpecRing: where csi_buffer_write and csi_buffer_read stand
    ctl         \* SpecSwap: where wifi_csi_config / wifi_csi_deinit stands

vars == <<buffer, config, enabled, drv, nextSeq, attempted, got, last, ring, ctl>>

\* ------------------------------------------------------------------------
\* Ring buffer (csi_buffer_t and its functions)
\* ------------------------------------------------------------------------

\* A malloc'ed array of n frames
NewFrames(n) == [i \in 0..(n - 1) |-> Garbage]

\* No storage (frames == NULL)
NoFrames == NewFrames(0)

\* Mutant of csi_buffer_init: one slot more than requested is allocated and
\* used
csi_buffer_init_extra_slot(buf, size, malloc_ok) ==
    IF ~malloc_ok
    THEN [buf |-> [buf EXCEPT !.alloc = FALSE, !.frames = NoFrames], ok |-> FALSE]
    ELSE [buf |-> [alloc |-> TRUE, frames |-> NewFrames(size + 1), head |-> 0,
                   tail |-> 0, size |-> size + 1, dropped |-> u32(0),
                   initialized |-> TRUE],
          ok |-> TRUE]

\* Mutant of csi_buffer_init: the drop counter is not reset
csi_buffer_init_keep_dropped(buf, size, malloc_ok) ==
    IF ~malloc_ok
    THEN [buf |-> [buf EXCEPT !.alloc = FALSE, !.frames = NoFrames], ok |-> FALSE]
    ELSE [buf |-> [alloc |-> TRUE, frames |-> NewFrames(size), head |-> 0,
                   tail |-> 0, size |-> size, dropped |-> buf.dropped,
                   initialized |-> TRUE],
          ok |-> TRUE]

\* Mutant of csi_buffer_init: head and tail are not reset
csi_buffer_init_keep_indices(buf, size, malloc_ok) ==
    IF ~malloc_ok
    THEN [buf |-> [buf EXCEPT !.alloc = FALSE, !.frames = NoFrames], ok |-> FALSE]
    ELSE [buf |-> [alloc |-> TRUE, frames |-> NewFrames(size), head |-> buf.head,
                   tail |-> buf.tail, size |-> size, dropped |-> u32(0),
                   initialized |-> TRUE],
          ok |-> TRUE]

csi_buffer_init(buf, size, malloc_ok) ==
    IF ~malloc_ok
    THEN [buf |-> [buf EXCEPT !.alloc = FALSE, !.frames = NoFrames], ok |-> FALSE]
    ELSE [buf |-> [alloc |-> TRUE, frames |-> NewFrames(size), head |-> 0,
                   tail |-> 0, size |-> size, dropped |-> u32(0),
                   initialized |-> TRUE],
          ok |-> TRUE]

\* Mutant of csi_buffer_deinit: the storage is released but the buffer stays
\* marked initialized
csi_buffer_deinit_keeps_flag(buf) ==
    IF buf.initialized /\ buf.alloc
    THEN [buf EXCEPT !.alloc = FALSE, !.frames = NoFrames]
    ELSE buf

csi_buffer_deinit(buf) ==
    IF buf.initialized /\ buf.alloc
    THEN [buf EXCEPT !.alloc = FALSE, !.frames = NoFrames, !.initialized = FALSE]
    ELSE buf

csi_buffer_is_empty(buf) == buf.head = buf.tail

csi_buffer_is_full(buf) == ((buf.head + 1) % buf.size) = buf.tail

\* Mutant of csi_buffer_write: the frame is stored in the slot after head
csi_buffer_write_next_slot(buf, frame) ==
    IF ~buf.initialized
    THEN [buf |-> buf, ok |-> FALSE]
    ELSE LET next_head == (buf.head + 1) % buf.size
         IN  IF next_head = buf.tail
             THEN [buf |-> [buf EXCEPT !.dropped = u32_inc(@)], ok |-> FALSE]
             ELSE [buf |-> [buf EXCEPT !.frames[next_head] = frame,
                                       !.head = next_head],
                   ok |-> TRUE]

\* Mutant of csi_buffer_write: a full buffer evicts its oldest frame
csi_buffer_write_drop_oldest(buf, frame) ==
    IF ~buf.initialized
    THEN [buf |-> buf, ok |-> FALSE]
    ELSE LET next_head == (buf.head + 1) % buf.size
         IN  IF next_head = buf.tail
             THEN [buf |-> [buf EXCEPT !.dropped = u32_inc(@),
                                       !.frames[buf.head] = frame,
                                       !.head = next_head,
                                       !.tail = (buf.tail + 1) % buf.size],
                   ok |-> FALSE]
             ELSE [buf |-> [buf EXCEPT !.frames[buf.head] = frame,
                                       !.head = next_head],
                   ok |-> TRUE]

\* Mutant of csi_buffer_write: the test for a full buffer is missing
csi_buffer_write_no_full_check(buf, frame) ==
    IF ~buf.initialized
    THEN [buf |-> buf, ok |-> FALSE]
    ELSE [buf |-> [buf EXCEPT !.frames[buf.head] = frame,
                              !.head = (buf.head + 1) % buf.size],
          ok |-> TRUE]

\* Mutant of csi_buffer_write: a frame refused by a full buffer is not counted
csi_buffer_write_uncounted_drop(buf, frame) ==
    IF ~buf.initialized
    THEN [buf |-> buf, ok |-> FALSE]
    ELSE LET next_head == (buf.head + 1) % buf.size
         IN  IF next_head = buf.tail
             THEN [buf |-> buf, ok |-> FALSE]
             ELSE [buf |-> [buf EXCEPT !.frames[buf.head] = frame,
                                       !.head = next_head],
                   ok |-> TRUE]

\* Mutant of csi_buffer_write: a buffer of one slot uses that slot
csi_buffer_write_single_slot(buf, frame) ==
    IF ~buf.initialized
    THEN [buf |-> buf, ok |-> FALSE]
    ELSE LET next_head == (buf.head + 1) % buf.size
         IN  IF next_head = buf.tail /\ buf.size > 1
             THEN [buf |-> [buf EXCEPT !.dropped = u32_inc(@)], ok |-> FALSE]
             ELSE [buf |-> [buf EXCEPT !.frames[buf.head] = frame,
                                       !.head = next_head],
                   ok |-> TRUE]

csi_buffer_write(buf, frame) ==
    IF ~buf.initialized
    THEN [buf |-> buf, ok |-> FALSE]
    ELSE LET next_head == (buf.head + 1) % buf.size
         IN  IF next_head = buf.tail
             THEN [buf |-> [buf EXCEPT !.dropped = u32_inc(@)], ok |-> FALSE]
             ELSE [buf |-> [buf EXCEPT !.frames[buf.head] = frame,
                                       !.head = next_head],
                   ok |-> TRUE]

\* Mutant of csi_buffer_read: the test for an empty buffer is missing
csi_buffer_read_no_empty_check(buf, out) ==
    IF ~buf.initialized
    THEN [buf |-> buf, ok |-> FALSE, frame |-> out]
    ELSE [buf |-> [buf EXCEPT !.tail = (buf.tail + 1) % buf.size],
          ok |-> TRUE, frame |-> buf.frames[buf.tail]]

\* Mutant of csi_buffer_read: a successful read clears the drop counter
csi_buffer_read_clears_dropped(buf, out) ==
    IF ~buf.initialized \/ csi_buffer_is_empty(buf)
    THEN [buf |-> buf, ok |-> FALSE, frame |-> out]
    ELSE [buf |-> [buf EXCEPT !.tail = (buf.tail + 1) % buf.size,
                              !.dropped = u32(0)],
          ok |-> TRUE, frame |-> buf.frames[buf.tail]]

\* Mutant of csi_buffer_read: the last queued frame is not handed out
csi_buffer_read_leaves_last(buf, out) ==
    IF ~buf.initialized \/ csi_buffer_is_empty(buf)
       \/ ((buf.tail + 1) % buf.size) = buf.head
    THEN [buf |-> buf, ok |-> FALSE, frame |-> out]
    ELSE [buf |-> [buf EXCEPT !.tail = (buf.tail + 1) % buf.size],
          ok |-> TRUE, frame |-> buf.frames[buf.tail]]

csi_buffer_read(buf, out) ==
    IF ~buf.initialized \/ csi_buffer_is_empty(buf)
    THEN [buf |-> buf, ok |-> FALSE, frame |-> out]
    ELSE [buf |-> [buf EXCEPT !.tail = (buf.tail + 1) % buf.size],
          ok |-> TRUE, frame |-> buf.frames[buf.tail]]

\* Mutant of available: head - tail without the wrapped case
available_no_wrap(buf) ==
    IF ~buf.initialized THEN 0 ELSE buf.head - buf.tail

\* wifi.csi.available()
available(buf) ==
    IF ~buf.initialized THEN 0
    ELSE IF buf.head >= buf.tail THEN buf.head - buf.tail
         ELSE buf.size - buf.tail + buf.head

\* ------------------------------------------------------------------------
\* The ESP-IDF CSI driver, as the controller uses it.  A call that returns
\* an error leaves the driver as it was.  Every call is appended to the
\* trace of the running handler (st.calls).
\* ------------------------------------------------------------------------

Ev(f, arg, r) == [f |-> f, arg |-> arg, r |-> r]

Log(st, f, arg, r) == [st EXCEPT !.calls = Append(@, Ev(f, arg, r))]

\* The wifi_csi_config_t that wifi_csi_enable builds from g_csi_state.config
\* (ESP32, ESP32-S2, ESP32-S3, ESP32-C3 branch)
csi_config_of(cfg) == [lltf_en |-> cfg.lltf_en, shift |-> cfg.shift]

esp_wifi_set_promiscuous(st, r) == Log(st, "set_promiscuous", "false", r)

esp_wifi_set_csi_config(st, c, r) ==
    LET s == Log(st, "set_csi_config", "-", r)
    IN  IF r = ESP_OK THEN [s EXCEPT !.drv.applied = c] ELSE s

esp_wifi_set_csi_rx_cb(st, r) ==
    LET s == Log(st, "set_csi_rx_cb", "-", r)
    IN  IF r = ESP_OK THEN [s EXCEPT !.drv.cb = TRUE] ELSE s

esp_wifi_set_csi(st, en, r) ==
    LET s == Log(st, "set_csi", IF en THEN "true" ELSE "false", r)
    IN  IF r = ESP_OK THEN [s EXCEPT !.drv.csi_on = en] ELSE s

\* ------------------------------------------------------------------------
\* Capture controller (g_csi_state and wifi_csi_*).  st is the controller
\* state [buffer, config, enabled, drv, calls]; env gives the result of each
\* driver call and of malloc during the handler.
\* ------------------------------------------------------------------------

\* free(buf->frames), traced with the driver's capture switch at that moment
TraceFree(st) ==
    IF st.buffer.initialized /\ st.buffer.alloc
    THEN Log(st, "free", IF st.drv.csi_on THEN "capture_on" ELSE "capture_off", ESP_OK)
    ELSE st

\* csi_buffer_init on g_csi_state.buffer
state_buffer_init(st, size, malloc_ok) ==
    LET b == csi_buffer_init(st.buffer, size, malloc_ok)
        s == Log(TraceFree(st), "malloc", "-",
                 IF malloc_ok THEN ESP_OK ELSE ESP_ERR_NO_MEM)
    IN  [st |-> [s EXCEPT !.buffer = b.buf], ok |-> b.ok]

\* csi_buffer_deinit on g_csi_state.buffer
state_buffer_deinit(st) ==
    [TraceFree(st) EXCEPT !.buffer = csi_buffer_deinit(st.buffer)]

\* Mutant of wifi_csi_init: the buffer is initialized again on every call
wifi_csi_init_always(st, env) ==
    state_buffer_init(st, st.config.buffer_size, env.malloc).st

wifi_csi_init(st, env) ==
    IF ~st.buffer.initialized
    THEN state_buffer_init(st, st.config.buffer_size, env.malloc).st
    ELSE st

\* Mutant of wifi_csi_enable: the test "already enabled" is missing, the
\* driver sequence runs again
wifi_csi_enable_again(st, env) ==
    LET b  == IF ~st.buffer.initialized
              THEN state_buffer_init(st, st.config.buffer_size, env.malloc)
              ELSE [st |-> st, ok |-> TRUE]
        s1 == esp_wifi_set_promiscuous(b.st, env.promisc)
        s2 == esp_wifi_set_csi_config(s1, csi_config_of(s1.config), env.cfg)
        s3 == esp_wifi_set_csi_rx_cb(s2, env.cb)
        s4 == esp_wifi_set_csi(s3, TRUE, env.start)
    IN  IF ~b.ok THEN [st |-> b.st, ret |-> ESP_ERR_NO_MEM]
        ELSE IF env.promisc # ESP_OK THEN [st |-> s1, ret |-> env.promisc]
        ELSE IF env.cfg # ESP_OK THEN [st |-> s2, ret |-> env.cfg]
        ELSE IF env.cb # ESP_OK THEN [st |-> s3, ret |-> env.cb]
        ELSE IF env.start # ESP_OK THEN [st |-> s4, ret |-> env.start]
        ELSE [st |-> [s4 EXCEPT !.enabled = TRUE], ret |-> ESP_OK]

\* Mutant of wifi_csi_enable: the enabled flag is set before the start-capture
\* call and stays set when that call fails
wifi_csi_enable_flag_early(st, env) ==
    IF st.enabled
    THEN [st |-> st, ret |-> ESP_OK]
    ELSE
    LET b  == IF ~st.buffer.initialized
              THEN state_buffer_init(st, st.config.buffer_size, env.malloc)
              ELSE [st |-> st, ok |-> TRUE]
        s1 == esp_wifi_set_promiscuous(b.st, env.promisc)
        s2 == esp_wifi_set_csi_config(s1, csi_config_of(s1.config), env.cfg)
        s3 == esp_wifi_set_csi_rx_cb(s2, env.cb)
        s4 == esp_wifi_set_csi([s3 EXCEPT !.enabled = TRUE], TRUE, env.start)
    IN  IF ~b.ok THEN [st |-> b.st, ret |-> ESP_ERR_NO_MEM]
        ELSE IF env.promisc # ESP_OK THEN [st |-> s1, ret |-> env.promisc]
        ELSE IF env.cfg # ESP_OK THEN [st |-> s2, ret |-> env.cfg]
        ELSE IF env.cb # ESP_OK THEN [st |-> s3, ret |-> env.cb]
        ELSE IF env.start # ESP_OK THEN [st |-> s4, ret |-> env.start]
        ELSE [st |-> s4, ret |-> ESP_OK]

\* Mutant of wifi_csi_enable: capture is started before the callback is
\* registered
wifi_csi_enable_start_first(st, env) ==
    IF st.enabled
    THEN [st |-> st, ret |-> ESP_OK]
    ELSE
    LET b  == IF ~st.buffer.initialized
              THEN state_buffer_init(st, st.config.buffer_size, env.malloc)
              ELSE [st |-> st, ok |-> TRUE]
        s1 == esp_wifi_set_promiscuous(b.st, env.promisc)
        s2 == esp_wifi_set_csi_config(s1, csi_config_of(s1.config), env.cfg)
        s3 == esp_wifi_set_csi(s2, TRUE, env.start)
        s4 == esp_wifi_set_csi_rx_cb(s3, env.cb)
    IN  IF ~b.ok THEN [st |-> b.st, ret |-> ESP_ERR_NO_MEM]
        ELSE IF env.promisc # ESP_OK THEN [st |-> s1, ret |-> env.promisc]
        ELSE IF env.cfg # ESP_OK THEN [st |-> s2, ret |-> env.cfg]
        ELSE IF env.start # ESP_OK THEN [st |-> s3, ret |-> env.start]
        ELSE IF env.cb # ESP_OK THEN [st |-> s4, ret |-> env.cb]
        ELSE [st |-> [s4 EXCEPT !.enabled = TRUE], ret |-> ESP_OK]

wifi_csi_enable(st, env) ==
    IF st.enabled
    THEN [st |-> st, ret |-> ESP_OK]
    ELSE
    LET b  == IF ~st.buffer.initialized
              THEN state_buffer_init(st, st.config.buffer_size, env.malloc)
              ELSE [st |-> st, ok |-> TRUE]
        s1 == esp_wifi_set_promiscuous(b.st, env.promisc)
        s2 == esp_wifi_set_csi_config(s1, csi_config_of(s1.config), env.cfg)
        s3 == esp_wifi_set_csi_rx_cb(s2, env.cb)
        s4 == esp_wifi_set_csi(s3, TRUE, env.start)
    IN  IF ~b.ok THEN [st |-> b.st, ret |-> ESP_ERR_NO_MEM]
        ELSE IF env.promisc # ESP_OK THEN [st |-> s1, ret |-> env.promisc]
        ELSE IF env.cfg # ESP_OK THEN [st |-> s2, ret |-> env.cfg]
        ELSE IF env.cb # ESP_OK THEN [st |-> s3, ret |-> env.cb]
        ELSE IF env.start # ESP_OK THEN [st |-> s4, ret |-> env.start]
        ELSE [st |-> [s4 EXCEPT !.enabled = TRUE], ret |-> ESP_OK]

wifi_csi_disable(st, env) ==
    IF ~st.enabled
    THEN [st |-> st, ret |-> ESP_OK]
    ELSE LET s == esp_wifi_set_csi(st, FALSE, env.stop)
         IN  IF env.stop # ESP_OK
             THEN [st |-> s, ret |-> env.stop]
             ELSE [st |-> [s EXCEPT !.enabled = FALSE], ret |-> ESP_OK]

\* wifi_csi_deinit and wifi_csi_config: "if enabled, wifi_csi_disable()",
\* the result of the call dropped
stop_if_enabled(st, env) ==
    IF st.enabled THEN wifi_csi_disable(st, env).st ELSE st

wifi_csi_deinit(st, env) == state_buffer_deinit(stop_if_enabled(st, env))

\* wifi_csi_config: memcpy(&g_csi_state.config, config, ...)
config_store(st, cfg) == [st EXCEPT !.config = cfg]

\* Mutant of config_restart: capture is not started again after the resize
config_restart_never(st, was_enabled, env) == [st |-> st, ret |-> ESP_OK]

\* wifi_csi_config after the new buffer is in place:
\* "if (was_enabled) return wifi_csi_enable();" and the final "return ESP_OK"
config_restart(st, was_enabled, env) ==
    IF was_enabled THEN wifi_csi_enable(st, env) ELSE [st |-> st, ret |-> ESP_OK]

\* Mutant of config_resize: an initialized buffer is resized in place
config_resize_in_place(st, buffer_size, env) ==
    IF st.buffer.initialized
    THEN [st |-> [st EXCEPT !.buffer.size = buffer_size,
                           !.buffer.frames = NewFrames(buffer_size),
                           !.buffer.head = 0, !.buffer.tail = 0],
          ret |-> ESP_OK]
    ELSE LET b == state_buffer_init(st, buffer_size, env.malloc)
         IN  IF ~b.ok THEN [st |-> b.st, ret |-> ESP_ERR_NO_MEM]
             ELSE [st |-> b.st, ret |-> ESP_OK]

\* wifi_csi_config, the branch taken when the capacity changes
config_resize(st, buffer_size, env) ==
    LET was_enabled == st.enabled
        s1 == stop_if_enabled(st, env)
        s2 == state_buffer_deinit(s1)
        b  == state_buffer_init(s2, buffer_size, env.malloc)
    IN  IF ~b.ok THEN [st |-> b.st, ret |-> ESP_ERR_NO_MEM]
        ELSE config_restart(b.st, was_enabled, env)

\* Mutant of config_same_size: the buffer is initialized again although the
\* capacity is unchanged
config_same_size_reinit(st, env) == config_resize(st, st.config.buffer_size, env)

\* wifi_csi_config, the branch taken when the capacity is unchanged
config_same_size(st, env) ==
    IF st.enabled THEN wifi_csi_enable(st, env) ELSE [st |-> st, ret |-> ESP_OK]

\* Mutant of wifi_csi_config: the new configuration is stored only when the
\* call succeeds
wifi_csi_config_store_on_success(st, cfg, env) ==
    LET r == IF cfg.buffer_size # st.buffer.size
             THEN config_resize(st, cfg.buffer_size, env)
             ELSE config_same_size(st, env)
    IN  IF r.ret = ESP_OK THEN [r EXCEPT !.st.config = cfg] ELSE r

wifi_csi_config(st, cfg, env) ==
    LET s0 == config_store(st, cfg)
    IN  IF cfg.buffer_size # s0.buffer.size
        THEN config_resize(s0, cfg.buffer_size, env)
        ELSE config_same_size(s0, env)

wifi_csi_read_frame(st, out) == csi_buffer_read(st.buffer, out)

\* The csi_frame_t that wifi_csi_rx_cb builds from the driver's record
frame_of(info) ==
    [seq |-> info.seq,
     len |-> IF info.len > CSI_MAX_DATA_LEN THEN CSI_MAX_DATA_LEN ELSE info.len]

\* Mutant of wifi_csi_rx_cb: the test of the enabled flag is missing
wifi_csi_rx_cb_no_enabled_check(st, info) ==
    IF ~st.buffer.initialized
    THEN [buf |-> st.buffer, ok |-> FALSE, wrote |-> FALSE]
    ELSE LET w == csi_buffer_write(st.buffer, frame_of(info))
         IN  [buf |-> w.buf, ok |-> w.ok, wrote |-> TRUE]

wifi_csi_rx_cb(st, info) ==
    IF ~st.enabled \/ ~st.buffer.initialized
    THEN [buf |-> st.buffer, ok |-> FALSE, wrote |-> FALSE]
    ELSE LET w == csi_buffer_write(st.buffer, frame_of(info))
         IN  [buf |-> w.buf, ok |-> w.ok, wrote |-> TRUE]

\* ------------------------------------------------------------------------
\* Spec: the controller, one action per handler
\* ------------------------------------------------------------------------

\* g_csi_state as initialized at load time, and the driver idle
InitBuffer ==
    [alloc |-> FALSE, frames |-> NoFrames, head |-> 0, tail |-> 0, size |-> 0,
     dropped |-> u32(0), initialized |-> FALSE]

InitConfig == [lltf_en |-> TRUE, shift |-> 0, buffer_size |-> CSI_DEFAULT_BUFFER_SIZE]

\* What the driver holds before any esp_wifi_set_csi_config call
NotApplied == [lltf_en |-> FALSE, shift |-> -1]

InitDrv == [csi_on |-> FALSE, cb |-> FALSE, applied |-> NotApplied]

NoFrame == Garbage

\* What a handler finds when it is entered
Pre == [enabled |-> enabled, initialized |-> buffer.initialized,
        size |-> buffer.size, unread |-> available(buffer),
        dropped |-> buffer.dropped]

InitLast ==
    [op |-> "load", ret |-> ESP_OK, ok |-> TRUE, calls |-> << >>,
     pre |-> [enabled |-> FALSE, initialized |-> FALSE, size |-> 0,
              unread |-> 0, dropped |-> u32(0)],
     frame |-> NoFrame]

\* Nobody is inside csi_buffer_write or csi_buffer_read
RingIdle ==
    [ppc |-> "idle", frame |-> NoFrame, next_head |-> 0,
     cpc |-> "idle", out |-> NoFrame, accepted |-> << >>]

\* No control handler is running
CtlIdle == [pc |-> "idle", was_enabled |-> FALSE]

Init ==
    /\ buffer = InitBuffer
    /\ config = InitConfig
    /\ enabled = FALSE
    /\ drv = InitDrv
    /\ nextSeq = 1
    /\ attempted = << >>
    /\ got = << >>
    /\ last = InitLast
    /\ ring = RingIdle
    /\ ctl = CtlIdle

\* The controller state a handler starts from
St == [buffer |-> buffer, config |-> config, enabled |-> enabled, drv |-> drv,
       calls |-> << >>]

\* Results of the calls of one handler run.  A handler stops at the first
\* failing step of the enable sequence, so the steps after it are not drawn;
\* a call the handler cannot reach from its starting state is not drawn
\* either (its result is left at success).
EnableResults ==
    {e \in [promisc : DriverResults, cfg : DriverResults, cb : DriverResults,
            start : DriverResults] :
        /\ e.promisc # ESP_OK => e.cfg = ESP_OK /\ e.cb = ESP_OK /\ e.start = ESP_OK
        /\ e.cfg # ESP_OK => e.cb = ESP_OK /\ e.start = ESP_OK
        /\ e.cb # ESP_OK => e.start = ESP_OK}

Env(stop, malloc, e) ==
    [stop |-> stop, malloc |-> malloc, promisc |-> e.promisc, cfg |-> e.cfg,
     cb |-> e.cb, start |-> e.start]

AllOk == [promisc |-> ESP_OK, cfg |-> ESP_OK, cb |-> ESP_OK, start |-> ESP_OK]

\* Result codes drawn for the driver calls wifi_csi_config makes through
\* wifi_csi_disable and wifi_csi_enable: the handlers only test a result
\* against ESP_OK, so one failure code is drawn there
NestedResults == {ESP_OK, ESP_FAIL}

\* The EnableResults whose codes are all in the set R
EnableResultsIn(R) ==
    {e \in EnableResults : {e.promisc, e.cfg, e.cb, e.start} \subseteq R}

StopDraws(needed) == IF needed THEN DriverResults ELSE {ESP_OK}

MallocDraws(needed) == IF needed THEN BOOLEAN ELSE {TRUE}

EnableDraws(needed) == IF needed THEN EnableResults ELSE {AllOk}

NestedStopDraws(needed) == IF needed THEN NestedResults ELSE {ESP_OK}

NestedEnableDraws(needed) ==
    IF needed THEN EnableResultsIn(NestedResults) ELSE {AllOk}

\* Configurations a caller passes to wifi_csi_config
Configs == [lltf_en : BOOLEAN, shift : {0}, buffer_size : Sizes]

\* A successful csi_buffer_init happened in the trace
Reinit(calls) ==
    \E i \in 1..Len(calls) : calls[i].f = "malloc" /\ calls[i].r = ESP_OK

\* Store the controller state a handler leaves, and what it returned
Commit(op, s, ret, ok, frame) ==
    /\ buffer' = s.buffer
    /\ config' = s.config
    /\ enabled' = s.enabled
    /\ drv' = s.drv
    /\ last' = [op |-> op, ret |-> ret, ok |-> ok, calls |-> s.calls,
                pre |-> Pre, frame |-> frame]
    /\ ring' = ring
    /\ ctl' = ctl

\* Commit for wifi_csi_config, which also keeps the caller's argument
CommitConfig(cfg, s, ret) ==
    /\ buffer' = s.buffer
    /\ config' = s.config
    /\ enabled' = s.enabled
    /\ drv' = s.drv
    /\ last' = [op |-> "config", ret |-> ret, ok |-> ret = ESP_OK,
                calls |-> s.calls, pre |-> Pre, frame |-> NoFrame, arg |-> cfg]
    /\ ring' = ring
    /\ ctl' = ctl

ControlHistory(s) ==
    /\ attempted' = IF Reinit(s.calls) THEN << >> ELSE attempted
    /\ got' = IF Reinit(s.calls) THEN << >> ELSE got
    /\ nextSeq' = nextSeq

DoInit ==
    \E m \in MallocDraws(~buffer.initialized) :
        LET s == wifi_csi_init(St, Env(ESP_OK, m, AllOk))
        IN  Commit("init", s, ESP_OK, TRUE, NoFrame) /\ ControlHistory(s)

DoDeinit ==
    \E r \in StopDraws(enabled) :
        LET s == wifi_csi_deinit(St, Env(r, TRUE, AllOk))
        IN  Commit("deinit", s, ESP_OK, TRUE, NoFrame) /\ ControlHistory(s)

DoEnable ==
    \E m \in MallocDraws(~enabled /\ ~buffer.initialized),
       e \in EnableDraws(~enabled) :
        LET r == wifi_csi_enable(St, Env(ESP_OK, m, e))
        IN  Commit("enable", r.st, r.ret, r.ret = ESP_OK, NoFrame)
            /\ ControlHistory(r.st)

DoDisable ==
    \E d \in StopDraws(enabled) :
        LET r == wifi_csi_disable(St, Env(d, TRUE, AllOk))
        IN  Commit("disable", r.st, r.ret, r.ret = ESP_OK, NoFrame)
            /\ ControlHistory(r.st)

DoConfig ==
    \E cfg \in Configs :
    \E d \in NestedStopDraws(enabled /\ cfg.buffer_size # buffer.size),
       m \in MallocDraws(cfg.buffer_size # buffer.size) :
    \E e \in NestedEnableDraws(enabled /\ cfg.buffer_size # buffer.size
                                       /\ d = ESP_OK /\ m) :
        LET r == wifi_csi_config(St, cfg, Env(d, m, e))
        IN  CommitConfig(cfg, r.st, r.ret) /\ ControlHistory(r.st)

\* The handler that ran last switched the driver's capture off
StoppedCapture(calls) ==
    \E i \in 1..Len(calls) :
        calls[i].f = "set_csi" /\ calls[i].arg = "false" /\ calls[i].r = ESP_OK

\* The driver delivers a frame to the registered callback: while its capture
\* switch is on, and once more right after the switch went off (the frame
\* the driver was handling at that moment; the callback stays registered).
DoIngest ==
    /\ drv.cb
    /\ drv.csi_on \/ StoppedCapture(last.calls)
    /\ nextSeq <= MaxSeq
    /\ \E l \in InfoLens :
        LET info == [seq |-> nextSeq, len |-> l]
            r == wifi_csi_rx_cb(St, info)
        IN  /\ Commit("ingest", [St EXCEPT !.buffer = r.buf], ESP_OK, r.ok,
                      frame_of(info))
            /\ attempted' = IF r.wrote THEN Append(attempted, frame_of(info))
                            ELSE attempted
            /\ got' = got
            /\ nextSeq' = nextSeq + 1

\* wifi.csi.read()
DoRead ==
    LET r == wifi_csi_read_frame(St, NoFrame)
    IN  /\ Commit("read", [St EXCEPT !.buffer = r.buf], ESP_OK, r.ok, r.frame)
        /\ got' = IF r.ok THEN Append(got, r.frame) ELSE got
        /\ UNCHANGED <<attempted, nextSeq>>

Next ==
    \/ DoInit
    \/ DoDeinit
    \/ DoEnable
    \/ DoDisable
    \/ DoConfig
    \/ DoIngest
    \/ DoRead

Spec == Init /\ [][Next]_vars

\* ------------------------------------------------------------------------
\* Properties of the ring buffer under Spec
\* ------------------------------------------------------------------------

\* The value of the drop counter (it stays far below 2^31 in these runs)
Dropped == buffer.dropped.hi * HALF_WORD + buffer.dropped.lo

\* The unread frames, oldest first: slots tail .. head-1
Queued(buf) ==
    [i \in 1..available(buf) |-> buf.frames[(buf.tail + i - 1) % buf.size]]

Prefix(s, n) == SubSeq(s, 1, n)

\* C1: in an initialized buffer of N slots to which at most N-1 frames have
\* been written since its init, nothing was dropped, the frames read so far
\* are the first frames written, in order and with equal contents, and once
\* as many were read as written the buffer is empty again (head == tail,
\* available() == 0, dropped == 0).
C1_WriteThenReadFifo ==
    (buffer.initialized /\ Len(attempted) <= buffer.size - 1) =>
        /\ Dropped = 0
        /\ Len(got) <= Len(attempted)
        /\ got = Prefix(attempted, Len(got))
        /\ Queued(buffer) = SubSeq(attempted, Len(got) + 1, Len(attempted))
        /\ (Len(got) = Len(attempted) =>
                buffer.head = buffer.tail /\ available(buffer) = 0)

\* K = N-1 = 2 frames were written and then read back from a 3-slot buffer
C1_Witness ==
    /\ buffer.initialized /\ buffer.size = 3
    /\ Len(attempted) = 2 /\ got = attempted
    /\ last.op = "read" /\ last.ok /\ last.frame = attempted[2]
    /\ buffer.head = buffer.tail /\ buffer.head = 2

\* C2 (state part): after N writes into an empty N-slot buffer with no read
\* in between exactly one frame was dropped and N-1 are available; the
\* frames read and still queued are the first N-1 written, in order, and
\* after N-1 reads the buffer is empty, so the next read finds no data.
C2_AfterNWrites ==
    (buffer.initialized /\ Len(attempted) = buffer.size) =>
        /\ (Len(got) = 0 => Dropped = 1 /\ available(buffer) = buffer.size - 1)
        /\ (Dropped = 1 =>
               /\ got \o Queued(buffer) = Prefix(attempted, buffer.size - 1)
               /\ (Len(got) = buffer.size - 1 => csi_buffer_is_empty(buffer)))

\* C2 (step part): a write into a full buffer adds one to dropped and
\* changes nothing else of the buffer
C2_FullWriteStep ==
    (/\ last'.op = "ingest"
     /\ enabled /\ buffer.initialized
     /\ csi_buffer_is_full(buffer)) =>
        /\ buffer'.dropped = u32(Dropped + 1)
        /\ buffer' = [buffer EXCEPT !.dropped = buffer'.dropped]
        /\ ~last'.ok

\* C2: drop-newest
C2_DropNewest == [](C2_AfterNWrites) /\ [][C2_FullWriteStep]_vars

\* 3 writes into a 3-slot buffer: the third was dropped, the first two were
\* read back and a third read found no data
C2_Witness ==
    /\ buffer.initialized /\ buffer.size = 3
    /\ Len(attempted) = 3 /\ Dropped = 1
    /\ got = Prefix(attempted, 2)
    /\ last.op = "read" /\ ~last.ok

\* ------------------------------------------------------------------------
\* Properties of the controller under Spec
\* ------------------------------------------------------------------------

\* The esp_wifi_* calls of a trace (without the malloc and free events)
DriverCalls(calls) == SelectSeq(calls, LAMBDA c : c.f \notin {"malloc", "free"})

\* C6: after wifi_csi_config returned ESP_OK for a capacity that differs from
\* the buffer's at entry, the buffer is initialized with the new capacity,
\* its storage is fresh and it is empty (head == tail == 0, a read finds no
\* data, nothing written before the call is in it), and the controller is
\* enabled iff it was enabled at entry.
C6_DestructiveResize ==
    (/\ last.op = "config" /\ last.ret = ESP_OK
     /\ config.buffer_size # last.pre.size) =>
        /\ buffer.initialized /\ buffer.alloc
        /\ buffer.size = config.buffer_size
        /\ buffer.head = 0 /\ buffer.tail = 0
        /\ buffer.frames = NewFrames(config.buffer_size)
        /\ ~wifi_csi_read_frame(St, NoFrame).ok
        /\ attempted = << >> /\ got = << >>
        /\ enabled = last.pre.enabled

\* An enabled controller with two unread frames in a 3-slot buffer was
\* resized to 2 slots and is enabled again
C6_Witness ==
    /\ last.op = "config" /\ last.ret = ESP_OK
    /\ last.pre.size = 3 /\ last.pre.unread = 2 /\ last.pre.enabled
    /\ config.buffer_size = 2 /\ buffer.size = 2
    /\ enabled /\ drv.csi_on
    /\ available(buffer) = 0

\* C7: a wifi_csi_config call made while enabled with the capacity the buffer
\* has leaves the buffer (head, tail, dropped, every slot) as it was, so the
\* frames queued before it are read after it in the same order.
C7_SameSizeStep ==
    (/\ last'.op = "config"
     /\ enabled /\ config'.buffer_size = buffer.size) =>
        /\ buffer' = buffer
        /\ attempted' = attempted /\ got' = got

C7_SameSizeKeepsFrames == [][C7_SameSizeStep]_vars

\* wifi_csi_config with the same capacity and another lltf_en was called
\* while enabled with two unread frames, which are still queued
C7_Witness ==
    /\ last.op = "config" /\ last.ret = ESP_OK
    /\ last.pre.enabled /\ last.pre.size = config.buffer_size
    /\ last.pre.unread = 2 /\ available(buffer) = 2
    /\ Queued(buffer) = attempted
    /\ ~config.lltf_en

\* C8 (as claimed): after wifi_csi_config returned ESP_OK for an unchanged
\* capacity while enabled, the configuration last applied to the driver is
\* the new stored configuration.
C8_Reapplied ==
    (/\ last.op = "config" /\ last.ret = ESP_OK
     /\ last.pre.enabled /\ last.pre.size = config.buffer_size) =>
        drv.applied = csi_config_of(config)

\* C9 (as claimed): wifi_csi_disable leaves the buffer as it was, and so does
\* the wifi_csi_enable that follows a disable which switched capture off.
C9_DisableEnableStep ==
    /\ (last'.op = "disable" => buffer' = buffer)
    /\ (/\ last.op = "disable" /\ last.pre.enabled /\ last.ret = ESP_OK
        /\ last'.op = "enable") => buffer' = buffer

C9_DisableEnableKeepsBuffer == [][C9_DisableEnableStep]_vars

\* C10: a wifi_csi_enable call that found the controller disabled and whose
\* driver calls did not all succeed returns the code of the failing call,
\* which is the last call it made, and leaves enabled false; it sets enabled
\* only after its four driver calls all returned ESP_OK.
C10_EnableAllOrNothing ==
    (last.op = "enable" /\ ~last.pre.enabled) =>
        LET d == DriverCalls(last.calls)
        IN  /\ \A i \in 1..Len(d) :
                d[i].r # ESP_OK => /\ i = Len(d)
                                   /\ last.ret = d[i].r
                                   /\ ~enabled
            /\ enabled =>
                /\ Len(d) = 4
                /\ \A i \in 1..4 : d[i].r = ESP_OK
                /\ last.ret = ESP_OK
            /\ last.ret = ESP_OK => enabled

\* The callback registration failed: the configuration was applied, capture
\* was not started, enable returned the driver's code and is not enabled
C10_Witness ==
    /\ last.op = "enable" /\ ~last.pre.enabled
    /\ last.ret = ESP_ERR_WIFI_NOT_INIT
    /\ Len(DriverCalls(last.calls)) = 3
    /\ DriverCalls(last.calls)[3] = Ev("set_csi_rx_cb", "-", ESP_ERR_WIFI_NOT_INIT)
    /\ drv.applied = csi_config_of(config)
    /\ ~enabled /\ ~drv.csi_on

\* C11 (as claimed): when a driver call made during wifi_csi_config fails,
\* the stop-capture call before a capacity change included, wifi_csi_config
\* returns that call's code; it returns ESP_OK only if every driver call it
\* made returned ESP_OK.
C11_ConfigReportsDriverError ==
    last.op = "config" =>
        LET d == DriverCalls(last.calls)
        IN  /\ \A i \in 1..Len(d) : d[i].r # ESP_OK => last.ret = d[i].r
            /\ last.ret = ESP_OK => \A i \in 1..Len(d) : d[i].r = ESP_OK

\* A malloc of the running handler returned NULL
MallocFailed(calls) ==
    \E i \in 1..Len(calls) : calls[i].f = "malloc" /\ calls[i].r # ESP_OK

\* C12 (as claimed): a wifi_csi_enable or wifi_csi_config call in which the
\* buffer allocation fails returns ESP_ERR_NO_MEM and leaves the enabled flag
\* and the buffer, its unread frames included, as they were at entry.
C12_AllocFailureStep ==
    (last'.op \in {"enable", "config"} /\ MallocFailed(last'.calls)) =>
        /\ last'.ret = ESP_ERR_NO_MEM
        /\ enabled' = enabled
        /\ buffer' = buffer

C12_AllocFailureKeepsState == [][C12_AllocFailureStep]_vars

\* C13: in every state with an initialized buffer, available() is the
\* number of frames csi_buffer_write accepted since the init minus the
\* number read, and lies in 0..size-1 (the subtraction never goes below 0),
\* also after head or tail has wrapped round.
C13_AvailableCounts ==
    buffer.initialized =>
        /\ available(buffer) = (Len(attempted) - Dropped) - Len(got)
        /\ available(buffer) \in 0..(buffer.size - 1)

\* One write, one read, one write, one read, one write on a 2-slot buffer:
\* more steps than slots, both indices have wrapped, one frame is unread
C13_Witness ==
    /\ buffer.initialized /\ buffer.size = 2
    /\ Len(attempted) = 3 /\ Len(got) = 2 /\ Dropped = 0
    /\ last.op = "ingest" /\ last.ok /\ last.pre.unread = 0
    /\ available(buffer) = 1

\* C14: csi_buffer_init with any capacity N >= 1, when its malloc succeeds,
\* leaves the buffer initialized with size N, empty (head == tail),
\* available() == 0 and dropped == 0, whatever the buffer held before; so
\* every handler that ran a successful csi_buffer_init ends with such a
\* buffer.
C14_FreshBufferEmpty ==
    /\ \A n \in Sizes :
        LET b == csi_buffer_init(buffer, n, TRUE)
        IN  /\ b.ok /\ b.buf.initialized /\ b.buf.size = n
            /\ csi_buffer_is_empty(b.buf)
            /\ available(b.buf) = 0
            /\ b.buf.dropped = u32(0)
    /\ Reinit(last.calls) =>
        /\ buffer.initialized
        /\ csi_buffer_is_empty(buffer)
        /\ available(buffer) = 0
        /\ Dropped = 0

\* wifi_csi_config replaced a buffer that held an unread frame and had
\* dropped one by a new one
C14_Witness ==
    /\ last.op = "config" /\ Reinit(last.calls)
    /\ last.pre.initialized /\ last.pre.unread = 1 /\ last.pre.dropped = u32(1)
    /\ buffer.initialized /\ buffer.size = 3
    /\ buffer.head = 0 /\ buffer.tail = 0 /\ Dropped = 0

\* C15 (as claimed): a buffer initialized for the configured capacity c has
\* c+1 slots and accepts c consecutive writes into the empty buffer without
\* dropping any.
C15_CapacityPlusOne ==
    buffer.initialized =>
        LET c == config.buffer_size
        IN  /\ Cardinality(DOMAIN buffer.frames) = c + 1
            /\ (Len(got) = 0 /\ Len(attempted) <= c) =>
                   /\ Dropped = 0
                   /\ available(buffer) = Len(attempted)

\* C15 (amended): a buffer initialized for the configured capacity c has
\* exactly c slots (size == c), of which one always stays free: it accepts
\* c-1 consecutive writes into the empty buffer without dropping any, and
\* drops every further one.
C15_SizeSlots ==
    buffer.initialized =>
        LET c == config.buffer_size
        IN  /\ buffer.size = c
            /\ DOMAIN buffer.frames = 0..(c - 1)
            /\ (Len(got) = 0 /\ Len(attempted) <= c - 1) =>
                   /\ Dropped = 0
                   /\ available(buffer) = Len(attempted)
            /\ (Len(got) = 0 /\ Len(attempted) >= c) =>
                   /\ Dropped = Len(attempted) - (c - 1)
                   /\ available(buffer) = c - 1

\* Three consecutive writes into an empty buffer configured for 3: the third
\* was dropped
C15_Witness ==
    /\ buffer.initialized /\ config.buffer_size = 3
    /\ Len(got) = 0 /\ Len(attempted) = 3
    /\ last.op = "ingest" /\ ~last.ok
    /\ Dropped = 1 /\ available(buffer) = 2

\* C16: a read from a buffer that is uninitialized or empty (head == tail)
\* returns "no data" and changes neither the buffer (head, tail, dropped,
\* slots) nor the caller's destination; any other read returns the frame in
\* slot tail and only advances tail by one modulo size.  The read has no
\* precondition and no wait: it can be taken in every state.
C16_ReadStep ==
    last'.op = "read" =>
        IF ~buffer.initialized \/ buffer.head = buffer.tail
        THEN /\ ~last'.ok
             /\ last'.frame = NoFrame
             /\ buffer' = buffer
             /\ got' = got
        ELSE /\ last'.ok
             /\ last'.frame = buffer.frames[buffer.tail]
             /\ buffer' = [buffer EXCEPT !.tail = (buffer.tail + 1) % buffer.size]
             /\ got' = Append(got, buffer.frames[buffer.tail])

C16_ReadEmptyOrOldest == [][C16_ReadStep]_vars /\ [](ENABLED DoRead)

\* A read found no data in a buffer that was released while it held two
\* unread frames (head and tail are left over and differ)
C16_Witness ==
    /\ last.op = "read" /\ ~last.ok /\ last.frame = NoFrame
    /\ ~buffer.initialized /\ buffer.head = 2 /\ buffer.tail = 0
    /\ got = << >>

\* C17: a wifi_csi_rx_cb call made while the controller is not enabled or
\* the buffer is uninitialized stores nothing: the buffer (head, tail,
\* dropped, every slot) is unchanged and the frame is not counted as written
\* or as dropped.
C17_IngestStep ==
    (last'.op = "ingest" /\ (~enabled \/ ~buffer.initialized)) =>
        /\ buffer' = buffer
        /\ ~last'.ok
        /\ attempted' = attempted

C17_IngestNoOp == [][C17_IngestStep]_vars

\* A frame arrived after wifi_csi_disable, with one frame queued in an
\* initialized buffer: it was not stored
C17_Witness ==
    /\ last.op = "ingest" /\ ~last.ok
    /\ ~last.pre.enabled /\ last.pre.initialized /\ last.pre.unread = 1
    /\ available(buffer) = 1 /\ Dropped = 0
    /\ Len(attempted) = 1 /\ nextSeq = 3

\* C19: wifi_csi_enable called while enabled returns ESP_OK, makes no
\* driver call and no allocation, and leaves the enabled flag, the buffer
\* with its unread frames, the stored configuration and the driver as they
\* were.
C19_EnableAgainStep ==
    (last'.op = "enable" /\ enabled) =>
        /\ last'.ret = ESP_OK
        /\ last'.calls = << >>
        /\ enabled'
        /\ buffer' = buffer
        /\ config' = config
        /\ drv' = drv
        /\ attempted' = attempted /\ got' = got

C19_EnableIdempotent == [][C19_EnableAgainStep]_vars

\* wifi_csi_enable was called while enabled with two unread frames, which
\* are still queued
C19_Witness ==
    /\ last.op = "enable" /\ last.ret = ESP_OK
    /\ last.pre.enabled /\ last.pre.unread = 2
    /\ enabled /\ drv.csi_on
    /\ available(buffer) = 2 /\ Queued(buffer) = attempted

\* C20 (as claimed): after wifi_csi_deinit, whatever the stop-capture call
\* returned, the controller is not enabled, the driver's capture is off and
\* the buffer is uninitialized with its storage released.
C20_DeinitEndsUninitialized ==
    last.op = "deinit" =>
        /\ ~enabled
        /\ ~drv.csi_on
        /\ ~buffer.initialized /\ ~buffer.alloc

\* C21: wifi_csi_init on a controller whose buffer is initialized changes
\* nothing (buffer with head, tail, dropped and every slot, enabled flag,
\* stored configuration; no allocation is made); on an uninitialized buffer
\* it runs csi_buffer_init with the configured capacity and leaves the
\* enabled flag alone.
C21_InitStep ==
    last'.op = "init" =>
        /\ enabled' = enabled /\ config' = config /\ drv' = drv
        /\ IF buffer.initialized
           THEN /\ buffer' = buffer
                /\ last'.calls = << >>
                /\ attempted' = attempted /\ got' = got
           ELSE \/ /\ Reinit(last'.calls)
                   /\ buffer' = csi_buffer_init(buffer, config.buffer_size, TRUE).buf
                \/ /\ MallocFailed(last'.calls)
                   /\ ~buffer'.initialized

C21_InitIdempotent == [][C21_InitStep]_vars

\* wifi_csi_init was called on an enabled controller with two unread frames
\* in its buffer: they are still queued
C21_Witness ==
    /\ last.op = "init" /\ last.calls = << >>
    /\ last.pre.initialized /\ last.pre.enabled /\ last.pre.unread = 2
    /\ enabled /\ available(buffer) = 2 /\ Queued(buffer) = attempted

\* The free() calls of a trace
Frees(calls) == SelectSeq(calls, LAMBDA c : c.f = "free")

\* C22: csi_buffer_deinit (run by wifi_csi_deinit) on an initialized buffer
\* releases the storage once and marks the buffer uninitialized; on a buffer
\* that is uninitialized, because it was released before or never
\* initialized, it changes nothing and releases nothing.  Applying it twice
\* gives what applying it once gives.
C22_DeinitStep ==
    last'.op = "deinit" =>
        /\ ~buffer'.initialized /\ ~buffer'.alloc /\ buffer'.frames = NoFrames
        /\ IF buffer.initialized
           THEN Len(Frees(last'.calls)) = 1
           ELSE buffer' = buffer /\ Len(Frees(last'.calls)) = 0
        /\ csi_buffer_deinit(buffer') = buffer'
        /\ csi_buffer_deinit(csi_buffer_deinit(buffer)) = csi_buffer_deinit(buffer)

C22_BufferDeinitIdempotent == [][C22_DeinitStep]_vars

\* A second wifi_csi_deinit in a row, on a buffer the first one released
\* (head and tail are left over from the two frames it held)
C22_Witness ==
    /\ last.op = "deinit" /\ ~last.pre.initialized
    /\ last.calls = << >>
    /\ ~buffer.initialized /\ ~buffer.alloc
    /\ buffer.head = 2 /\ buffer.size = CSI_DEFAULT_BUFFER_SIZE

\* Frames written and neither dropped nor read since the last init
Unread == Len(attempted) - Dropped - Len(got)

\* C28: in an initialized buffer of N slots, no frame is unread iff
\* head == tail, csi_buffer_write refuses a frame iff (head + 1) mod N ==
\* tail, which is when N-1 frames are unread, and never more than N-1 frames
\* are unread; head and tail stay inside 0..N-1.
C28_SentinelGap ==
    buffer.initialized =>
        /\ buffer.head \in 0..(buffer.size - 1)
        /\ buffer.tail \in 0..(buffer.size - 1)
        /\ (Unread = 0) <=> (buffer.head = buffer.tail)
        /\ (~csi_buffer_write(buffer, NoFrame).ok)
               <=> (((buffer.head + 1) % buffer.size) = buffer.tail)
        /\ csi_buffer_is_empty(buffer) <=> (buffer.head = buffer.tail)
        /\ csi_buffer_is_full(buffer) <=> (Unread = buffer.size - 1)
        /\ Unread <= buffer.size - 1
        /\ Unread = available(buffer)

\* A buffer of 2 slots, full with head wrapped around to 0 behind tail = 1:
\* the frame that arrived last was refused
C28_Witness ==
    /\ buffer.initialized /\ buffer.size = 2
    /\ buffer.head = 0 /\ buffer.tail = 1
    /\ Unread = 1 /\ Len(got) = 1 /\ Dropped = 1
    /\ last.op = "ingest" /\ ~last.ok /\ last.pre.enabled

\* C29, the parts about write and read: ingest never changes tail; read
\* never changes head, dropped or a slot
C29_WriteReadStep ==
    /\ last'.op = "ingest" => buffer'.tail = buffer.tail
    /\ last'.op = "read" =>
           /\ buffer'.head = buffer.head
           /\ buffer'.dropped = buffer.dropped
           /\ buffer'.frames = buffer.frames

\* C29 as stated: index ownership, head and dropped changing in no step but
\* the producer's write.
C29_OnlyProducerChangesHead ==
    [][/\ C29_WriteReadStep
       /\ (buffer'.head # buffer.head \/ buffer'.dropped # buffer.dropped)
              => last'.op = "ingest"]_vars

\* C29, amended: ingest never changes tail; read never changes head, dropped
\* or a slot; head and dropped change only in an ingest that reaches
\* csi_buffer_write, or in a control call whose csi_buffer_init succeeded,
\* which sets head, tail and dropped to 0; tail changes only in read or in
\* such a csi_buffer_init.
C29_IndexOwnership ==
    [][/\ C29_WriteReadStep
       /\ (buffer'.head # buffer.head \/ buffer'.dropped # buffer.dropped) =>
              \/ last'.op = "ingest" /\ enabled /\ buffer.initialized
              \/ /\ last'.op \in {"init", "enable", "config"}
                 /\ Reinit(last'.calls)
                 /\ buffer'.head = 0 /\ buffer'.tail = 0
                 /\ buffer'.dropped = u32(0)
       /\ buffer'.tail # buffer.tail =>
              \/ last'.op = "read"
              \/ /\ last'.op \in {"init", "enable", "config"}
                 /\ Reinit(last'.calls)
                 /\ buffer'.head = 0 /\ buffer'.tail = 0
                 /\ buffer'.dropped = u32(0)]_vars

\* A read took the first frame out of a full 2-slot buffer that had dropped
\* one frame: head and the drop counter are as the producer left them
C29_Witness ==
    /\ last.op = "read" /\ last.ok
    /\ last.pre.dropped = u32(1) /\ Dropped = 1
    /\ buffer.size = 2 /\ buffer.head = 1 /\ buffer.tail = 1
    /\ Len(attempted) = 2 /\ Len(got) = 1

\* The calls of the enable sequence in a trace: everything but malloc, free
\* and the stop-capture call of wifi_csi_disable
EnableCalls(calls) ==
    SelectSeq(calls, LAMBDA c : /\ c.f \notin {"malloc", "free"}
                                /\ ~(c.f = "set_csi" /\ c.arg = "false"))

\* The order in which wifi_csi_enable calls the driver
EnableOrder == <<"set_promiscuous", "set_csi_config", "set_csi_rx_cb", "set_csi">>

\* The buffer is initialized when call i of the trace is made: the last
\* malloc or free before it is a malloc that succeeded, or there is none and
\* the buffer was initialized when the handler started
InitializedAt(calls, i, before) ==
    LET M == {m \in 1..(i - 1) : calls[m].f \in {"malloc", "free"}}
    IN  IF M = {} THEN before
        ELSE \E m \in M : /\ \A k \in M : k <= m
                           /\ calls[m].f = "malloc" /\ calls[m].r = ESP_OK

\* C30: in every run of the enable sequence (wifi_csi_enable, also when
\* wifi_csi_config calls it) the driver calls are made in the order apply
\* configuration, register callback, start capture, each only after the
\* calls before it returned ESP_OK, and the buffer is initialized when the
\* first of them is made; a driver whose capture is on has a configuration
\* applied and the callback registered.
C30_EnableOrder ==
    /\ last.op \in {"enable", "config"} =>
           LET e == EnableCalls(last.calls)
           IN  /\ Len(e) <= Len(EnableOrder)
               /\ \A i \in 1..Len(e) :
                      /\ e[i].f = EnableOrder[i]
                      /\ i < Len(e) => e[i].r = ESP_OK
               /\ \A i \in 1..Len(last.calls) :
                      (/\ last.calls[i].f \in {"set_promiscuous", "set_csi_config",
                                               "set_csi_rx_cb", "set_csi"}
                       /\ ~(last.calls[i].f = "set_csi"
                            /\ last.calls[i].arg = "false"))
                      => InitializedAt(last.calls, i, last.pre.initialized)
    /\ drv.csi_on => drv.cb /\ drv.applied # NotApplied

\* wifi_csi_enable on the freshly loaded module: allocation, then the four
\* driver calls, all successful
C30_Witness ==
    /\ last.op = "enable" /\ last.ret = ESP_OK /\ ~last.pre.initialized
    /\ last.calls = <<Ev("malloc", "-", ESP_OK),
                      Ev("set_promiscuous", "false", ESP_OK),
                      Ev("set_csi_config", "-", ESP_OK),
                      Ev("set_csi_rx_cb", "-", ESP_OK),
                      Ev("set_csi", "true", ESP_OK)>>
    /\ enabled /\ drv.csi_on /\ drv.cb

\* C31: wifi_csi_config stores the caller's configuration before it calls
\* the driver or allocates: whatever it returns (ESP_OK, a driver error,
\* ESP_ERR_NO_MEM) the stored configuration is the one it was called with,
\* and a configuration it applied to the driver is that one too.
C31_ConfigStoredFirst ==
    last.op = "config" =>
        /\ config = last.arg
        /\ (\E i \in 1..Len(last.calls) :
               last.calls[i].f = "set_csi_config" /\ last.calls[i].r = ESP_OK)
           => drv.applied = csi_config_of(last.arg)

\* wifi_csi_config asked for 2 slots on an initialized 3-slot buffer and the
\* allocation failed: the stored capacity is 2 all the same
C31_Witness ==
    /\ last.op = "config" /\ last.ret = ESP_ERR_NO_MEM
    /\ last.pre.initialized /\ last.pre.size = 3
    /\ last.arg.buffer_size = 2 /\ config.buffer_size = 2
    /\ ~last.arg.lltf_en /\ ~config.lltf_en
    /\ ~buffer.initialized

\* C32: whenever the buffer is initialized, its storage is allocated with
\* size slots (size at least 1) and head and tail are below size, so the
\* slot csi_buffer_write stores into and the slot csi_buffer_read copies out
\* of lie inside the allocated array.
C32_IndicesInRange ==
    buffer.initialized =>
        /\ buffer.size >= 1
        /\ buffer.alloc /\ DOMAIN buffer.frames = 0..(buffer.size - 1)
        /\ buffer.head >= 0 /\ buffer.head < buffer.size
        /\ buffer.tail >= 0 /\ buffer.tail < buffer.size
        /\ buffer.head \in DOMAIN buffer.frames
        /\ buffer.tail \in DOMAIN buffer.frames

\* The third write on a 3-slot buffer, after two reads: head went from the
\* last slot round to slot 0, tail stands on the last slot
C32_Witness ==
    /\ buffer.initialized /\ buffer.size = 3
    /\ buffer.head = 0 /\ buffer.tail = 2
    /\ last.op = "ingest" /\ last.ok
    /\ Len(attempted) = 3 /\ Len(got) = 2

\* Slots from tail up to head, whether or not the buffer is initialized
Held(buf) ==
    IF buf.size = 0 THEN 0
    ELSE IF buf.head >= buf.tail THEN buf.head - buf.tail
         ELSE buf.size - buf.tail + buf.head

\* Sequence numbers of the frames of a sequence
SeqsOf(fs) == {fs[i].seq : i \in 1..Len(fs)}

\* C33: from one csi_buffer_init to the next, in every state, the frames
\* handed to csi_buffer_write on the initialized buffer are as many as the
\* frames read plus the frames held between tail and head plus dropped;
\* while the buffer is initialized the held frames are what available()
\* reports, and the frames read and held are pairwise different frames that
\* were written.
C33_FrameAccounting ==
    /\ Len(attempted) = Len(got) + Held(buffer) + Dropped
    /\ buffer.initialized =>
           LET kept == got \o Queued(buffer)
           IN  /\ Held(buffer) = available(buffer)
               /\ Cardinality(SeqsOf(kept)) = Len(kept)
               /\ SeqsOf(kept) \subseteq SeqsOf(attempted)

\* 2-slot buffer: one frame read, one unread, one dropped, three written
C33_Witness ==
    /\ buffer.initialized /\ buffer.size = 2
    /\ Len(attempted) = 3 /\ Len(got) = 1
    /\ available(buffer) = 1 /\ Dropped = 1
    /\ last.op = "ingest" /\ last.ok

\* C34 (as claimed): between control operations, whatever the driver and
\* malloc returned, an enabled controller has an initialized buffer with
\* storage allocated.
C34_EnabledImpliesInitialized ==
    enabled => buffer.initialized /\ buffer.alloc

\* C37: an initialized buffer of capacity 1 never holds a frame: head and
\* tail stay 0, its one slot is never written, csi_buffer_read finds no data
\* and leaves the buffer alone, csi_buffer_write refuses the frame and only
\* adds one to dropped, so every frame handed to it so far was dropped and
\* none was read.
C37_CapacityOneStoresNothing ==
    (buffer.initialized /\ buffer.size = 1) =>
        /\ buffer.head = 0 /\ buffer.tail = 0
        /\ buffer.frames = NewFrames(1)
        /\ available(buffer) = 0
        /\ ~csi_buffer_read(buffer, NoFrame).ok
        /\ csi_buffer_read(buffer, NoFrame).buf = buffer
        /\ \A l \in InfoLens :
               LET w == csi_buffer_write(buffer, frame_of([seq |-> nextSeq, len |-> l]))
               IN  /\ ~w.ok
                   /\ w.buf = [buffer EXCEPT !.dropped = u32_inc(buffer.dropped)]
        /\ Dropped = Len(attempted)
        /\ got = << >>

\* Two frames arrived on an enabled 1-slot buffer, both were dropped, and
\* the read after them found no data
C37_Witness ==
    /\ buffer.initialized /\ buffer.size = 1 /\ config.buffer_size = 1
    /\ enabled
    /\ Len(attempted) = 2 /\ Dropped = 2
    /\ last.op = "read" /\ ~last.ok

\* C39 (step part): the size of a buffer that is initialized before and
\* after a step changes only in a step that released its storage and
\* allocated a new one
C39_SizeStep ==
    (buffer.initialized /\ buffer'.initialized /\ buffer'.size # buffer.size) =>
        /\ Frees(last'.calls) # << >>
        /\ Reinit(last'.calls)
        /\ buffer'.frames = NewFrames(buffer'.size)

\* C39: between control operations an initialized buffer has the size of the
\* stored configuration's buffer_size, and the size of a live buffer changes
\* only by releasing the buffer and initializing a new one.
C39_SizeIsConfigured ==
    /\ [](buffer.initialized => buffer.size = config.buffer_size)
    /\ [][C39_SizeStep]_vars

\* A disabled controller with an initialized 2-slot buffer was reconfigured
\* to 3 slots: the old storage was freed and new storage allocated
C39_Witness ==
    /\ last.op = "config" /\ last.ret = ESP_OK
    /\ last.pre.initialized /\ last.pre.size = 2 /\ ~last.pre.enabled
    /\ buffer.initialized /\ buffer.size = 3 /\ config.buffer_size = 3
    /\ Frees(last.calls) # << >> /\ Reinit(last.calls)

\* ------------------------------------------------------------------------
\* SpecRing: csi_buffer_write against csi_buffer_read, statement by
\* statement.  The producer runs csi_buffer_write (check, memcpy into slot
\* head, head = next_head), the consumer csi_buffer_read (check, memcpy out
\* of slot tail, tail advance); a memcpy moves a frame one word at a time.
\* ------------------------------------------------------------------------

\* Mutant of write_order: head is published before the frame is copied
write_order_publish_first(pc) ==
    CASE pc = "check"   -> "publish"
      [] pc = "publish" -> "copy1"
      [] pc = "copy1"   -> "copy2"
      [] pc = "copy2"   -> "idle"

\* The statement csi_buffer_write runs after statement pc
write_order(pc) ==
    CASE pc = "check"   -> "copy1"
      [] pc = "copy1"   -> "copy2"
      [] pc = "copy2"   -> "publish"
      [] pc = "publish" -> "idle"

\* Mutant of write_full: the sentinel slot is not kept free
write_full_never(buf, next_head) == FALSE

\* csi_buffer_write's test for a full buffer
write_full(buf, next_head) == next_head = buf.tail

\* Frame lengths the driver reports in SpecRing (two, so that a frame mixed
\* from two writes differs from both)
RingLens == {32, 64}

InitRing ==
    /\ \E n \in Sizes : buffer = csi_buffer_init(InitBuffer, n, TRUE).buf
    /\ config = InitConfig
    /\ enabled = TRUE
    /\ drv = [csi_on |-> TRUE, cb |-> TRUE, applied |-> csi_config_of(InitConfig)]
    /\ nextSeq = 1
    /\ attempted = << >>
    /\ got = << >>
    /\ last = InitLast
    /\ ring = RingIdle
    /\ ctl = CtlIdle

RingFrame == UNCHANGED <<config, enabled, drv, last, ctl>>

\* csi_buffer_write is entered with a new frame: lines 114-124
P_Check ==
    /\ ring.ppc = "idle"
    /\ nextSeq <= RingMaxSeq
    /\ \E l \in RingLens :
        LET frame == frame_of([seq |-> nextSeq, len |-> l])
            next_head == (buffer.head + 1) % buffer.size
        IN  /\ attempted' = Append(attempted, frame)
            /\ nextSeq' = nextSeq + 1
            /\ IF ~buffer.initialized
               THEN UNCHANGED <<buffer, ring>>
               ELSE IF write_full(buffer, next_head)
               THEN /\ buffer' = [buffer EXCEPT !.dropped = u32_inc(@)]
                    /\ ring' = ring
               ELSE /\ buffer' = buffer
                    /\ ring' = [ring EXCEPT !.ppc = write_order("check"),
                                            !.frame = frame,
                                            !.next_head = next_head,
                                            !.accepted = Append(@, frame)]
    /\ UNCHANGED got
    /\ RingFrame

\* memcpy(&buf->frames[buf->head], frame, ...), first word
P_Copy1 ==
    /\ ring.ppc = "copy1"
    /\ buffer' = [buffer EXCEPT !.frames[buffer.head].seq = ring.frame.seq]
    /\ ring' = [ring EXCEPT !.ppc = write_order("copy1")]
    /\ UNCHANGED <<nextSeq, attempted, got>>
    /\ RingFrame

\* memcpy(&buf->frames[buf->head], frame, ...), second word
P_Copy2 ==
    /\ ring.ppc = "copy2"
    /\ buffer' = [buffer EXCEPT !.frames[buffer.head].len = ring.frame.len]
    /\ ring' = [ring EXCEPT !.ppc = write_order("copy2")]
    /\ UNCHANGED <<nextSeq, attempted, got>>
    /\ RingFrame

\* buf->head = next_head
P_Publish ==
    /\ ring.ppc = "publish"
    /\ buffer' = [buffer EXCEPT !.head = ring.next_head]
    /\ ring' = [ring EXCEPT !.ppc = write_order("publish")]
    /\ UNCHANGED <<nextSeq, attempted, got>>
    /\ RingFrame

\* csi_buffer_read is entered: line 137
C_Check ==
    /\ ring.cpc = "idle"
    /\ ring' = IF ~buffer.initialized \/ csi_buffer_is_empty(buffer)
               THEN ring
               ELSE [ring EXCEPT !.cpc = "copy1", !.out = NoFrame]
    /\ UNCHANGED <<buffer, nextSeq, attempted, got>>
    /\ RingFrame

\* memcpy(frame, &buf->frames[buf->tail], ...), first word
C_Copy1 ==
    /\ ring.cpc = "copy1"
    /\ ring' = [ring EXCEPT !.cpc = "copy2",
                            !.out.seq = buffer.frames[buffer.tail].seq]
    /\ UNCHANGED <<buffer, nextSeq, attempted, got>>
    /\ RingFrame

\* memcpy(frame, &buf->frames[buf->tail], ...), second word
C_Copy2 ==
    /\ ring.cpc = "copy2"
    /\ ring' = [ring EXCEPT !.cpc = "advance",
                            !.out.len = buffer.frames[buffer.tail].len]
    /\ UNCHANGED <<buffer, nextSeq, attempted, got>>
    /\ RingFrame

\* buf->tail = (buf->tail + 1) % buf->size; return true
C_Advance ==
    /\ ring.cpc = "advance"
    /\ buffer' = [buffer EXCEPT !.tail = (buffer.tail + 1) % buffer.size]
    /\ got' = Append(got, ring.out)
    /\ ring' = [ring EXCEPT !.cpc = "idle"]
    /\ UNCHANGED <<nextSeq, attempted>>
    /\ RingFrame

NextRing ==
    \/ P_Check
    \/ P_Copy1
    \/ P_Copy2
    \/ P_Publish
    \/ C_Check
    \/ C_Copy1
    \/ C_Copy2
    \/ C_Advance

SpecRing == InitRing /\ [][NextRing]_vars

\* The consumer is between csi_buffer_read's emptiness check and its
\* advance of tail
Reading == ring.cpc \in {"copy1", "copy2", "advance"}

\* The producer is inside csi_buffer_write's memcpy into slot head
Copying == ring.ppc \in {"copy1", "copy2"}

\* C3: under every interleaving of the producer's and the consumer's
\* statements, every slot the consumer can see as unread (tail up to head)
\* holds a complete frame that a write stored, the slot the consumer copies
\* from is the oldest unread frame, and the frames read are the frames
\* accepted, in the order written.
C3_CopyThenPublish ==
    /\ Len(got) + available(buffer) <= Len(ring.accepted)
    /\ got = Prefix(ring.accepted, Len(got))
    /\ Queued(buffer) =
           SubSeq(ring.accepted, Len(got) + 1, Len(got) + available(buffer))
    /\ (Reading => /\ available(buffer) > 0
                   /\ buffer.frames[buffer.tail] = ring.accepted[Len(got) + 1])

\* The consumer has read a frame and is copying the next one out while the
\* producer is in the middle of copying a later frame in
C3_Witness ==
    /\ Len(got) = 1
    /\ ring.cpc = "copy2" /\ ring.ppc = "copy2"
    /\ ring.out.seq = ring.accepted[2].seq
    /\ Len(ring.accepted) = 3

\* C4: the producer is never inside its memcpy into slot head while the
\* consumer is between its check and its tail advance on the same slot.
C4_NoSlotShared == (Copying /\ Reading) => buffer.head # buffer.tail

\* Producer and consumer copy at the same time, the producer having wrapped
\* round to slot 0 while the consumer reads the last slot
C4_Witness ==
    /\ buffer.size = 3 /\ buffer.head = 0 /\ buffer.tail = 2
    /\ ring.ppc = "copy2" /\ ring.cpc = "copy2"

\* ------------------------------------------------------------------------
\* SpecSwap: the controller with wifi_csi_config and wifi_csi_deinit taken
\* statement by statement.  The driver calls wifi_csi_rx_cb whenever its
\* capture switch is on, also between two statements of a running handler;
\* the callback itself runs to its end (it is not preempted by the caller
\* of the control functions).
\* ------------------------------------------------------------------------

\* Store the state a statement leaves and move the handler to pc
Step(op, s, ret, pc, was_enabled) ==
    /\ buffer' = s.buffer
    /\ config' = s.config
    /\ enabled' = s.enabled
    /\ drv' = s.drv
    /\ last' = [op |-> op, ret |-> ret, ok |-> ret = ESP_OK, calls |-> s.calls,
                pre |-> Pre, frame |-> NoFrame]
    /\ ctl' = [pc |-> pc, was_enabled |-> was_enabled]
    /\ ring' = ring
    /\ ControlHistory(s)

S_Init ==
    /\ ctl.pc = "idle"
    /\ \E m \in MallocDraws(~buffer.initialized) :
        Step("init", wifi_csi_init(St, Env(ESP_OK, m, AllOk)), ESP_OK, "idle", FALSE)

S_Enable ==
    /\ ctl.pc = "idle"
    /\ \E m \in MallocDraws(~enabled /\ ~buffer.initialized),
          e \in EnableDraws(~enabled) :
        LET r == wifi_csi_enable(St, Env(ESP_OK, m, e))
        IN  Step("enable", r.st, r.ret, "idle", FALSE)

S_Disable ==
    /\ ctl.pc = "idle"
    /\ \E d \in StopDraws(enabled) :
        LET r == wifi_csi_disable(St, Env(d, TRUE, AllOk))
        IN  Step("disable", r.st, r.ret, "idle", FALSE)

\* wifi_csi_config up to and including its wifi_csi_disable call (lines
\* 492-500), or to its return when the capacity is unchanged (510-515)
S_ConfigBegin ==
    /\ ctl.pc = "idle"
    /\ \E cfg \in Configs :
        LET s0 == config_store(St, cfg)
        IN  IF cfg.buffer_size # s0.buffer.size
            THEN \E d \in StopDraws(enabled) :
                    Step("config_stop", stop_if_enabled(s0, Env(d, TRUE, AllOk)),
                         ESP_OK, "cfg_deinit", s0.enabled)
            ELSE LET r == config_same_size(s0, Env(ESP_OK, TRUE, AllOk))
                 IN  Step("config", r.st, r.ret, "idle", FALSE)

\* csi_buffer_deinit(&g_csi_state.buffer), line 502
S_ConfigDeinit ==
    /\ ctl.pc = "cfg_deinit"
    /\ Step("config_free", state_buffer_deinit(St), ESP_OK, "cfg_init",
            ctl.was_enabled)

\* csi_buffer_init(&g_csi_state.buffer, config->buffer_size), lines 503-505
S_ConfigInit ==
    /\ ctl.pc = "cfg_init"
    /\ \E m \in BOOLEAN :
        LET b == state_buffer_init(St, config.buffer_size, m)
        IN  IF ~b.ok
            THEN Step("config", b.st, ESP_ERR_NO_MEM, "idle", FALSE)
            ELSE IF ctl.was_enabled
            THEN Step("config_alloc", b.st, ESP_OK, "cfg_enable", TRUE)
            ELSE Step("config", b.st, ESP_OK, "idle", FALSE)

\* return wifi_csi_enable(), lines 507-509
S_ConfigEnable ==
    /\ ctl.pc = "cfg_enable"
    /\ \E e \in EnableDraws(~enabled) :
        LET r == config_restart(St, ctl.was_enabled, Env(ESP_OK, TRUE, e))
        IN  Step("config", r.st, r.ret, "idle", FALSE)

\* wifi_csi_deinit up to and including its wifi_csi_disable call, 233-235
S_DeinitBegin ==
    /\ ctl.pc = "idle"
    /\ \E d \in StopDraws(enabled) :
        Step("deinit_stop", stop_if_enabled(St, Env(d, TRUE, AllOk)), ESP_OK,
             "dn_deinit", enabled)

\* csi_buffer_deinit(&g_csi_state.buffer), line 236
S_DeinitFree ==
    /\ ctl.pc = "dn_deinit"
    /\ Step("deinit", state_buffer_deinit(St), ESP_OK, "idle", FALSE)

\* The driver delivers a frame, whatever the controller is doing
S_Ingest == DoIngest

\* wifi.csi.read(), from the context that also runs the control handlers
S_Read == ctl.pc = "idle" /\ DoRead

NextSwap ==
    \/ S_Init
    \/ S_Enable
    \/ S_Disable
    \/ S_ConfigBegin
    \/ S_ConfigDeinit
    \/ S_ConfigInit
    \/ S_ConfigEnable
    \/ S_DeinitBegin
    \/ S_DeinitFree
    \/ S_Ingest
    \/ S_Read

SpecSwap == Init /\ [][NextSwap]_vars

\* The controller is between its stop-capture call and the end of the
\* release or replacement of the buffer storage
Swapping == ctl.pc \in {"cfg_deinit", "cfg_init", "dn_deinit"}

\* C5: whenever the controller is about to release the buffer storage or has
\* released it and not yet initialized the new one (in wifi_csi_config with a
\* changed capacity, in wifi_csi_deinit), the driver's capture is off, for
\* every result of the stop-capture call.
C5_DisableBeforeFree == Swapping => ~drv.csi_on

\* ------------------------------------------------------------------------
\* SpecLen: one wifi_csi_rx_cb call for every length the driver can report
\* (up to MaxInfoLen), with and without a payload pointer, followed by the
\* read of the stored frame.  The repository holds the callback twice:
\* src/src/modwifi_csi.c copies frame.len bytes of payload,
\* src/modwifi_csi.c copies frame.len * sizeof(int16_t) bytes.
\* ------------------------------------------------------------------------

\* wifi_csi_info_t.len values
ReportedLens == 0..MaxInfoLen

\* Bytes the memcpy into frame.data copies, src/src/modwifi_csi.c
payload_bytes(info) ==
    IF info.buf /\ frame_of(info).len > 0 THEN frame_of(info).len ELSE 0

\* Bytes the memcpy into frame.data copies, src/modwifi_csi.c
payload_bytes_int16(info) ==
    IF info.buf /\ frame_of(info).len > 0
    THEN frame_of(info).len * SIZEOF_INT16
    ELSE 0

\* frame.len after the memcpy of n bytes into frame.data, which has
\* CSI_MAX_DATA_LEN bytes and is followed by len: a longer copy runs over
\* len and what follows, and leaves there what the driver's memory held
LenAfterCopy(len, n) ==
    IF n <= CSI_MAX_DATA_LEN THEN {len} ELSE {len, 0, CSI_MAX_DATA_LEN + 1}

\* Store what one callback run did: the reported length, the bytes copied
\* and the frame handed to csi_buffer_write
RxCbDone(info, frame, copied) ==
    LET w == IF ~enabled \/ ~buffer.initialized
             THEN [buf |-> buffer, ok |-> FALSE]
             ELSE csi_buffer_write(buffer, frame)
    IN  /\ buffer' = w.buf
        /\ last' = [op |-> "rx_cb", ret |-> ESP_OK, ok |-> w.ok,
                    calls |-> <<Ev("info", "len", info.len),
                                Ev("memcpy", "frame.data", copied)>>,
                    pre |-> Pre, frame |-> frame]
        /\ attempted' = Append(attempted, frame)
        /\ nextSeq' = nextSeq + 1
        /\ UNCHANGED <<config, enabled, drv, got, ring, ctl>>

\* wifi_csi_rx_cb of src/src/modwifi_csi.c
L_RxCb ==
    /\ nextSeq = 1
    /\ \E l \in ReportedLens, b \in BOOLEAN :
        LET info == [seq |-> nextSeq, len |-> l, buf |-> b]
        IN  \E n \in LenAfterCopy(frame_of(info).len, payload_bytes(info)) :
                RxCbDone(info, [frame_of(info) EXCEPT !.len = n],
                         payload_bytes(info))

\* wifi_csi_rx_cb of src/modwifi_csi.c
L_RxCbInt16 ==
    /\ nextSeq = 1
    /\ \E l \in ReportedLens, b \in BOOLEAN :
        LET info == [seq |-> nextSeq, len |-> l, buf |-> b]
        IN  \E n \in LenAfterCopy(frame_of(info).len, payload_bytes_int16(info)) :
                RxCbDone(info, [frame_of(info) EXCEPT !.len = n],
                         payload_bytes_int16(info))

\* wifi.csi.read() of the stored frame
L_Read ==
    /\ nextSeq > 1
    /\ buffer.head # buffer.tail
    /\ LET r == wifi_csi_read_frame(St, NoFrame)
       IN  /\ buffer' = r.buf
           /\ got' = Append(got, r.frame)
           /\ UNCHANGED <<config, enabled, drv, nextSeq, attempted, last, ring, ctl>>

NextLen ==
    \/ L_RxCb
    \/ L_RxCbInt16
    \/ L_Read

\* An enabled controller with an empty 3-slot buffer
InitLen ==
    /\ buffer = csi_buffer_init(InitBuffer, MaxSize, TRUE).buf
    /\ config = [InitConfig EXCEPT !.buffer_size = MaxSize]
    /\ enabled = TRUE
    /\ drv = [csi_on |-> TRUE, cb |-> TRUE, applied |-> csi_config_of(InitConfig)]
    /\ nextSeq = 1
    /\ attempted = << >>
    /\ got = << >>
    /\ last = InitLast
    /\ ring = RingIdle
    /\ ctl = CtlIdle

SpecLen == InitLen /\ [][NextLen]_vars

\* min(len, CSI_MAX_DATA_LEN)
Truncated(len) == IF len > CSI_MAX_DATA_LEN THEN CSI_MAX_DATA_LEN ELSE len

\* C18 (as claimed): for every length the driver reports, the frame that
\* wifi_csi_rx_cb stores has len == min(reported length, CSI_MAX_DATA_LEN),
\* also when it is read back, and the callback copied at most
\* CSI_MAX_DATA_LEN payload bytes into the frame.
C18_Truncates ==
    last.op = "rx_cb" =>
        /\ last.frame.len = Truncated(last.calls[1].r)
        /\ last.calls[2].r <= CSI_MAX_DATA_LEN
        /\ \A i \in 1..Len(got) : got[i].len = Truncated(last.calls[1].r)

\* ------------------------------------------------------------------------
\* SpecBind: wifi.csi.config with keyword arguments as the Python binding
\* (wifi_csi_config_obj) runs it: keyword arguments parsed with their
\* defaults, the shift masked, the capacity validated, then wifi_csi_config.
\* The driver calls and malloc succeed in this specification.
\* ------------------------------------------------------------------------

\* A keyword argument: given with value v, or left out
Given(v) == [given |-> TRUE, v |-> v]

Omitted(v) == [given |-> FALSE, v |-> v]

\* Values a caller passes
ShiftInputs == {-1, 35}

BufferSizeInputs == {-1, 0, 1, MAX_BUFFER_SIZE, MAX_BUFFER_SIZE + 1}

Kwargs ==
    [lltf_en : {Omitted(FALSE), Given(FALSE)},
     shift : {Omitted(0)} \cup {Given(x) : x \in ShiftInputs},
     buffer_size : {Omitted(0)} \cup {Given(n) : n \in BufferSizeInputs}]

\* mp_arg_parse_all with allowed_args: an argument left out gets the default
\* of its table entry
mp_arg_parse_all(kw) ==
    [lltf_en |-> IF kw.lltf_en.given THEN kw.lltf_en.v ELSE TRUE,
     shift |-> IF kw.shift.given THEN kw.shift.v ELSE 0,
     buffer_size |-> IF kw.buffer_size.given THEN kw.buffer_size.v
                     ELSE CSI_DEFAULT_BUFFER_SIZE]

\* Mutant of shift_masked: out-of-range values are clamped
shift_clamped(x) == IF x > SHIFT_MASK THEN SHIFT_MASK ELSE IF x < 0 THEN 0 ELSE x

\* u_int & 0x0F on a two's complement machine word: the low four bits
shift_masked(x) ==
    IF x >= 0 THEN x % (SHIFT_MASK + 1)
    ELSE ((SHIFT_MASK + 1) - ((-x) % (SHIFT_MASK + 1))) % (SHIFT_MASK + 1)

\* Mutant of buffer_size_invalid: the upper limit is off by one
buffer_size_invalid_off_by_one(n) == n < 0 \/ n < 1 \/ n > MAX_BUFFER_SIZE + 1

\* config.buffer_size < 1 || config.buffer_size > 1024 on the uint32_t field
\* (a negative argument is a value above 2^31 there)
buffer_size_invalid(n) == n < 0 \/ n < 1 \/ n > MAX_BUFFER_SIZE

\* Mutant of config_from_args: an argument left out keeps the stored value
config_from_args_keep(cfg, kw) ==
    [lltf_en |-> IF kw.lltf_en.given THEN kw.lltf_en.v ELSE cfg.lltf_en,
     shift |-> IF kw.shift.given THEN shift_masked(kw.shift.v) ELSE cfg.shift,
     buffer_size |-> IF kw.buffer_size.given THEN kw.buffer_size.v
                     ELSE cfg.buffer_size]

\* The csi_config_t wifi_csi_config_obj builds: a copy of the stored
\* configuration with every field overwritten from the parsed arguments
config_from_args(cfg, kw) ==
    LET parsed_args == mp_arg_parse_all(kw)
    IN  [cfg EXCEPT !.lltf_en = parsed_args.lltf_en,
                    !.shift = shift_masked(parsed_args.shift),
                    !.buffer_size = parsed_args.buffer_size]

ValueError == "ValueError"

wifi_csi_config_obj(st, kw, env) ==
    LET cfg == config_from_args(st.config, kw)
    IN  IF buffer_size_invalid(cfg.buffer_size)
        THEN [st |-> st, ret |-> ValueError]
        ELSE wifi_csi_config(st, cfg, env)

\* Every call of the handler succeeds
EnvOk == Env(ESP_OK, TRUE, AllOk)

\* wifi.csi.config called with the keyword arguments kw
K_Config ==
    \E kw \in Kwargs :
        LET r == wifi_csi_config_obj(St, kw, EnvOk)
        IN  /\ buffer' = r.st.buffer
            /\ config' = r.st.config
            /\ enabled' = r.st.enabled
            /\ drv' = r.st.drv
            /\ last' = [op |-> "config_obj", ret |-> r.ret, ok |-> r.ret = ESP_OK,
                        calls |-> r.st.calls, pre |-> Pre, frame |-> NoFrame,
                        kw |-> kw, stored |-> config]
            /\ ControlHistory(r.st)
            /\ UNCHANGED <<ring, ctl>>

\* wifi.csi.enable()
K_Enable ==
    LET r == wifi_csi_enable(St, EnvOk)
    IN  Commit("enable", r.st, r.ret, r.ret = ESP_OK, NoFrame)
        /\ ControlHistory(r.st)

\* One frame from the driver
K_Ingest == nextSeq = 1 /\ DoIngest

K_Read == DoRead

NextBind ==
    \/ K_Config
    \/ K_Enable
    \/ K_Ingest
    \/ K_Read

SpecBind == Init /\ [][NextBind]_vars

\* C23: wifi.csi.config with a buffer_size below 1 or above 1024 raises
\* ValueError and changes nothing: stored configuration, buffer, enabled
\* flag and driver are as before and no driver call or allocation was made.
\* A buffer_size in 1..1024, given or defaulted, is not rejected.
C23_ConfigStep ==
    last'.op = "config_obj" =>
        LET n == last'.kw.buffer_size
        IN  IF n.given /\ (n.v < 1 \/ n.v > 1024)
            THEN /\ last'.ret = ValueError
                 /\ last'.calls = << >>
                 /\ UNCHANGED <<buffer, config, enabled, drv, attempted, got>>
            ELSE last'.ret # ValueError

C23_InvalidCapacityRejected == [][C23_ConfigStep]_vars

\* config(buffer_size=1025) was rejected on an enabled controller with a
\* stored non-default configuration and an unread frame
C23_Witness ==
    /\ last.op = "config_obj" /\ last.ret = ValueError
    /\ last.kw.buffer_size = Given(MAX_BUFFER_SIZE + 1)
    /\ last.kw.shift.given /\ last.kw.lltf_en.given
    /\ config = [lltf_en |-> FALSE, shift |-> 3, buffer_size |-> CSI_DEFAULT_BUFFER_SIZE]
    /\ enabled /\ drv.csi_on
    /\ buffer.size = CSI_DEFAULT_BUFFER_SIZE /\ available(buffer) = 1

\* C24: wifi.csi.config never rejects a shift: whatever integer is passed,
\* the call is rejected only for its buffer_size, and the stored shift of an
\* accepted call is the argument modulo 16, a value in 0..15.
C24_ShiftMasked ==
    last.op = "config_obj" =>
        /\ (last.ret = ValueError) =
               (last.kw.buffer_size.given
                /\ (last.kw.buffer_size.v < 1 \/ last.kw.buffer_size.v > 1024))
        /\ last.ret # ValueError =>
               /\ config.shift \in 0..15
               /\ last.kw.shift.given => config.shift = last.kw.shift.v % 16
        /\ \A x \in (-MaxShiftInput)..MaxShiftInput :
               shift_masked(x) = x % 16 /\ shift_masked(x) \in 0..15

\* shift=35 was stored as 3
C24_Witness ==
    /\ last.op = "config_obj" /\ last.ret = ESP_OK
    /\ last.kw.shift = Given(35)
    /\ config.shift = 3

\* C26: an accepted wifi.csi.config stores, for every option the caller left
\* out, that option's fixed default (lltf_en true, shift 0, buffer_size 128)
\* and for every option given the value given (the shift masked); no option
\* keeps the value stored before the call.
C26_DefaultsForOmitted ==
    (last.op = "config_obj" /\ last.ret # ValueError) =>
        /\ config.lltf_en =
               (IF last.kw.lltf_en.given THEN last.kw.lltf_en.v ELSE TRUE)
        /\ config.shift =
               (IF last.kw.shift.given THEN last.kw.shift.v % 16 ELSE 0)
        /\ config.buffer_size =
               (IF last.kw.buffer_size.given THEN last.kw.buffer_size.v
                ELSE CSI_DEFAULT_BUFFER_SIZE)

\* config() without arguments on a controller that stored lltf_en false,
\* shift 3 and buffer_size 1: all three are back at their defaults and the
\* buffer has 128 slots
C26_Witness ==
    /\ last.op = "config_obj" /\ last.ret = ESP_OK
    /\ last.stored = [lltf_en |-> FALSE, shift |-> 3, buffer_size |-> 1]
    /\ ~last.kw.lltf_en.given /\ ~last.kw.shift.given
    /\ ~last.kw.buffer_size.given
    /\ config = InitConfig
    /\ buffer.initialized /\ buffer.size = CSI_DEFAULT_BUFFER_SIZE

\* ------------------------------------------------------------------------
\* SpecBuf: the ring buffer functions on their own, called in any order by
\* an arbitrary caller on a csi_buffer_t (csi_buffer_init also on a buffer
\* that is initialized), the drop counter starting anywhere a run of drops
\* can have brought it.
\* ------------------------------------------------------------------------

\* Largest value of the uint32_t drop counter
UINT32_MAX == [hi |-> HALF_WORD - 1, lo |-> HALF_WORD - 1]

\* Drop counts the buffer starts from: none, and one short of the largest
DroppedStarts == {u32(0), [hi |-> HALF_WORD - 1, lo |-> HALF_WORD - 2]}

\* An access to frames[i] with frames == NULL either traps (the core panics)
\* or goes through to whatever memory is there
NullAccess == {"trap", "proceeds"}

Panic == [pc |-> "panic", was_enabled |-> FALSE]

DanglingNull(buf) == buf.initialized /\ ~buf.alloc

BufLast(op, ok, frame) ==
    [op |-> op, ret |-> ESP_OK, ok |-> ok, calls |-> << >>,
     pre |-> buffer, frame |-> frame]

B_Init ==
    /\ ctl.pc = "idle"
    /\ \E n \in Sizes, malloc_ok \in BOOLEAN :
        LET r == csi_buffer_init(buffer, n, malloc_ok)
        IN  /\ buffer' = r.buf
            /\ last' = BufLast("buffer_init", r.ok, NoFrame)
    /\ UNCHANGED <<config, enabled, drv, nextSeq, attempted, got, ring, ctl>>

B_Deinit ==
    /\ ctl.pc = "idle"
    /\ buffer' = csi_buffer_deinit(buffer)
    /\ last' = BufLast("buffer_deinit", TRUE, NoFrame)
    /\ UNCHANGED <<config, enabled, drv, nextSeq, attempted, got, ring, ctl>>

B_Write ==
    /\ ctl.pc = "idle"
    /\ nextSeq <= MaxSeq
    /\ LET frame == [seq |-> nextSeq, len |-> 64]
           r == csi_buffer_write(buffer, frame)
       IN  IF DanglingNull(buffer) /\ ~csi_buffer_is_full(buffer)
           THEN \E o \in NullAccess :
                   /\ ctl' = IF o = "trap" THEN Panic ELSE ctl
                   /\ buffer' = IF o = "trap" THEN buffer
                                ELSE [buffer EXCEPT
                                        !.head = (buffer.head + 1) % buffer.size]
                   /\ last' = BufLast("buffer_write", o # "trap", frame)
           ELSE /\ buffer' = r.buf
                /\ last' = BufLast("buffer_write", r.ok, frame)
                /\ ctl' = ctl
    /\ nextSeq' = nextSeq + 1
    /\ UNCHANGED <<config, enabled, drv, attempted, got, ring>>

B_Read ==
    /\ ctl.pc = "idle"
    /\ LET r == csi_buffer_read(buffer, NoFrame)
       IN  IF DanglingNull(buffer) /\ ~csi_buffer_is_empty(buffer)
           THEN \E o \in NullAccess :
                   /\ ctl' = IF o = "trap" THEN Panic ELSE ctl
                   /\ buffer' = IF o = "trap" THEN buffer
                                ELSE [buffer EXCEPT
                                        !.tail = (buffer.tail + 1) % buffer.size]
                   /\ last' = BufLast("buffer_read", o # "trap", Garbage)
           ELSE /\ buffer' = r.buf
                /\ last' = BufLast("buffer_read", r.ok, r.frame)
                /\ ctl' = ctl
    /\ UNCHANGED <<config, enabled, drv, nextSeq, attempted, got, ring>>

NextBuf ==
    \/ B_Init
    \/ B_Deinit
    \/ B_Write
    \/ B_Read

InitBuf ==
    /\ buffer \in {InitBuffer} \cup
            {[csi_buffer_init(InitBuffer, n, TRUE).buf EXCEPT !.dropped = d] :
                n \in Sizes, d \in DroppedStarts}
    /\ config = InitConfig
    /\ enabled = FALSE
    /\ drv = InitDrv
    /\ nextSeq = 1
    /\ attempted = << >>
    /\ got = << >>
    /\ last = InitLast
    /\ ring = RingIdle
    /\ ctl = CtlIdle

SpecBuf == InitBuf /\ [][NextBuf]_vars

\* a < b for two uint32_t counters
u32_less(a, b) == a.hi < b.hi \/ (a.hi = b.hi /\ a.lo < b.lo)

\* C36 (as claimed): dropped never decreases in a write, a read or a release
\* of the buffer; it goes down only in a successful csi_buffer_init, which
\* sets it to 0.
C36_DroppedMonotonic ==
    [][u32_less(buffer'.dropped, buffer.dropped) =>
          /\ last'.op = "buffer_init" /\ last'.ok
          /\ buffer'.dropped = u32(0)]_vars

\* C25: the drop counter saturates: a write into a full buffer whose counter
\* stands at the largest uint32_t value leaves the counter at that value.
C25_DroppedSaturates ==
    [][(/\ last'.op = "buffer_write"
        /\ buffer.initialized
        /\ csi_buffer_is_full(buffer)
        /\ buffer.dropped = UINT32_MAX)
       => buffer'.dropped = UINT32_MAX]_vars

\* C27: a csi_buffer_init that fails reports the failure and leaves no buffer
\* that is marked initialized and holds no storage, whatever the buffer was
\* before the call.
C27_FailedInitConsistent ==
    last.op = "buffer_init" /\ ~last.ok => ~DanglingNull(buffer)

\* ------------------------------------------------------------------------
\* SpecStart: wifi_csi_enable taken in two steps, up to the return of
\* esp_wifi_set_csi(true) and then "g_csi_state.enabled = true", with the
\* driver calling wifi_csi_rx_cb whenever its capture switch is on.
\* ------------------------------------------------------------------------

\* wifi_csi_enable up to and including esp_wifi_set_csi(true), lines 239-445
E_EnableBegin ==
    /\ ctl.pc = "idle"
    /\ \E m \in MallocDraws(~enabled /\ ~buffer.initialized),
          e \in EnableDraws(~enabled) :
        LET r == wifi_csi_enable(St, Env(ESP_OK, m, e))
        IN  IF ~enabled /\ r.ret = ESP_OK
            THEN Step("enable_start", [r.st EXCEPT !.enabled = FALSE], ESP_OK,
                      "en_flag", FALSE)
            ELSE Step("enable", r.st, r.ret, "idle", FALSE)

\* g_csi_state.enabled = true, line 447
E_EnableEnd ==
    /\ ctl.pc = "en_flag"
    /\ Step("enable", [St EXCEPT !.enabled = TRUE], ESP_OK, "idle", FALSE)

E_Disable ==
    /\ ctl.pc = "idle"
    /\ \E d \in StopDraws(enabled) :
        LET r == wifi_csi_disable(St, Env(d, TRUE, AllOk))
        IN  Step("disable", r.st, r.ret, "idle", FALSE)

\* wifi_csi_config while capture is disabled
E_Config ==
    /\ ctl.pc = "idle"
    /\ ~enabled
    /\ \E cfg \in Configs :
       \E m \in MallocDraws(cfg.buffer_size # buffer.size) :
        LET r == wifi_csi_config(St, cfg, Env(ESP_OK, m, AllOk))
        IN  Step("config", r.st, r.ret, "idle", FALSE)

\* The driver delivers a frame, whatever the controller is doing
E_Ingest == drv.csi_on /\ DoIngest

E_Read == ctl.pc = "idle" /\ DoRead

NextStart ==
    \/ E_EnableBegin
    \/ E_EnableEnd
    \/ E_Disable
    \/ E_Config
    \/ E_Ingest
    \/ E_Read

SpecStart == Init /\ [][NextStart]_vars

\* C35 (as claimed): every wifi_csi_rx_cb call the driver makes while its
\* capture is on stores the frame or adds one to dropped, also between the
\* return of the start-capture call and the setting of the enabled flag.
C35_IngestStoresOrCounts ==
    [][(last'.op = "ingest" /\ drv.csi_on) =>
          \/ /\ last'.ok
             /\ buffer'.frames[buffer.head] = last'.frame
             /\ buffer'.head = (buffer.head + 1) % buffer.size
          \/ buffer'.dropped = u32_inc(buffer.dropped)]_vars

\* ------------------------------------------------------------------------
\* SpecLive: producer and consumer on a buffer that is never released or
\* resized (no wifi_csi_config, no wifi_csi_deinit), starting with a buffer
\* of any capacity that an earlier configuration set up.  The consumer keeps
\* calling wifi.csi.read(): weak fairness on the read.
\* ------------------------------------------------------------------------

V_Enable == DoEnable

V_Disable == DoDisable

V_Ingest == DoIngest

V_Read == DoRead

NextLive ==
    \/ V_Enable
    \/ V_Disable
    \/ V_Ingest
    \/ V_Read

InitLive ==
    /\ \E n \in Sizes :
        /\ buffer = csi_buffer_init(InitBuffer, n, TRUE).buf
        /\ config = [InitConfig EXCEPT !.buffer_size = n]
    /\ enabled = FALSE
    /\ drv = InitDrv
    /\ nextSeq = 1
    /\ attempted = << >>
    /\ got = << >>
    /\ last = InitLast
    /\ ring = RingIdle
    /\ ctl = CtlIdle

SpecLive == InitLive /\ [][NextLive]_vars /\ WF_vars(V_Read)

\* The driver will deliver no further frame
ProducerDone == nextSeq > MaxSeq

\* C38: with the consumer calling read again and again and the buffer never
\* released or resized, every frame csi_buffer_write accepted is eventually
\* returned by a read; once the producer has stopped, the buffer eventually
\* is empty and a read returns "no data".
C38_AcceptedEventuallyRead ==
    /\ \A k \in 1..MaxSeq :
          (k \in SeqsOf(Queued(buffer))) ~> (k \in SeqsOf(got))
    /\ ProducerDone ~>
          (csi_buffer_is_empty(buffer) /\ last.op = "read" /\ ~last.ok)
    /\ (<>[](~enabled)) =>
          <>(csi_buffer_is_empty(buffer) /\ last.op = "read" /\ ~last.ok)

\* All frames have arrived on a 2-slot buffer: one was dropped, the two
\* accepted ones were read, and the read after them found no data
C38_Witness ==
    /\ ProducerDone
    /\ buffer.size = 2 /\ Dropped = 1
    /\ Len(attempted) = 3 /\ Len(got) = 2
    /\ SeqsOf(got) \subseteq SeqsOf(attempted)
    /\ csi_buffer_is_empty(buffer)
    /\ last.op = "read" /\ ~last.ok

====
